---- MODULE Spec2Model ----
(***************************************************************************)
(* Campaign dispatch engine of DanielCayresFilho/camp:                     *)
(*   - CampaignsService.create / uploadCampaign  (campaigns.service.ts)    *)
(*   - RateLimitingService                       (dto/upload-campaign...)  *)
(*                                                                         *)
(* Time is counted in whole seconds (the code counts milliseconds); every  *)
(* duration of the code is the same duration expressed in seconds.         *)
(* Math.random() is a rational num/RandDen with 0 <= num < RandDen, drawn  *)
(* from a stream that is fixed by a seed chosen in the initial state.      *)
(***************************************************************************)
EXTENDS Integers, Sequences, FiniteSets, Bags, TLC

VARIABLES
    now,            \* Date.now(), in seconds
    seed,           \* seed of the Math.random() stream
    randCalls,      \* number of Math.random() calls made so far
    linesStock,     \* prisma.linesStock : line id -> row
    segment,        \* prisma.segment    : set of rows [id, name]
    controlPanel,   \* controlPanelService.findOne()
    campaign,       \* prisma.campaign   : record id -> row
    campaignSeq,    \* last id handed out by the campaign table
    contactTable,   \* contacts table    : phone -> row
    campaignsQueue, \* Bull queue 'campaigns' : sequence of jobs
    conversation,   \* prisma.conversation : bag of rows
    up,             \* the uploadCampaign call in flight
    rl,             \* the last RateLimitingService call and its outcome
    bursts,         \* number of message bursts recorded so far
    blocklist,      \* blocklistService : set of blocked phones
    evolution,      \* prisma.evolution : set of lines whose gateway row exists
    template,       \* prisma.template  : template id -> row
    lineOperator,   \* prisma.lineOperator : line id -> sequence of bound users
    templateMessage,\* prisma.templateMessage : sequence of rows
    jobs,           \* the executions of handleSendMessage : job number -> state
    faults,         \* number of failed writes and deliveries injected so far
    rd,             \* a call of the message parser or template renderer
    pr              \* the presence scheduler: its cycle, its calls, its timers

vars == <<now, seed, randCalls, linesStock, segment, controlPanel, campaign,
          campaignSeq, contactTable, campaignsQueue, conversation, up, rl,
          bursts, blocklist, evolution, template, lineOperator, templateMessage,
          jobs, faults, rd, pr>>

(* the state of the worker and of the renderer *)
workerVars == <<blocklist, evolution, template, lineOperator, templateMessage,
                jobs, faults, rd, pr>>

----------------------------------------------------------------------------
(* Bounds of the model *)

MaxContacts == 21
NumLines == 3
NumSegments == 2
NumSeeds == 1
MaxBursts == 2
MaxTicks == 3
MaxBodyLen == 3
NumJobs == 2
NumWorkers == 2
MaxCycles == 2
MaxFaultyBatch == 3
MaxFaults == 3

(* Program constants *)

RandDen == 60
DaySeconds == 86400
HourSeconds == 3600
TickSeconds == HourSeconds
minDelaySeconds == 30
maxDelaySeconds == 150
LongPauseEvery == 20
longPauseMinSeconds == 300
longPauseSpanSeconds == 600
NumHardcodedContents == 20
JobAttempts == 3
JobBackoffSeconds == 2
Concurrency == 1
MaxRetries == 3
massiveDelayMinSeconds == 5
massiveDelayMaxSeconds == 15
CronSeconds == 300
onlineChancePercent == 15
onlineMinSeconds == 10
onlineMaxSeconds == 40
nextMessagesTake == 100
nextMessagesShown == 5

LineIds == 1..NumLines
SegmentIds == 1..NumSegments
NoSegment == 0
NoLine == 0
NoTemplate == 0
NoUser == 0
DefaultSegmentName == "Padrão"
DefaultSegmentId == NumSegments

Undefined == [t |-> "undefined"]

----------------------------------------------------------------------------
(* Helpers *)

RECURSIVE SetToSortedSeq(_)
SetToSortedSeq(S) ==
    IF S = {} THEN <<>>
    ELSE LET m == CHOOSE x \in S : \A y \in S : x <= y
         IN <<m>> \o SetToSortedSeq(S \ {m})

(* Math.random(): the c-th draw of the stream of seed s, as a numerator *)
MathRandom(s, c) == ((s + 1) * 7 * c + 59 * s) % RandDen

----------------------------------------------------------------------------
(* Values *)

(* A string is a plain text, or the JSON encoding of a value (an object, or *)
(* again a string: a doubly encoded payload).                               *)
Text(s) == [t |-> "text", s |-> s]
EmptyString == [t |-> "text", s |-> ""]

JSONstringify(v) == [t |-> "json", v |-> v]

Truthy(m) == m # Undefined /\ m # EmptyString

(* message.trim().startsWith('{'): the encoding of an object does, the *)
(* encoding of a string starts with a quote                            *)
StartsWithBrace(m) == m.t = "braced" \/ (m.t = "json" /\ m.v.t = "object")

Some(v) == [t |-> "val", v |-> v]

(* a text that starts with '{' and is not valid JSON; content is the value *)
(* of its "content":"..." pair, or Undefined when it has none              *)
Braced(content) == [t |-> "braced", content |-> content]

(* A key as it is written: its letters in lower case, whether some of them *)
(* are written in upper case, whether blanks surround it.                  *)
Key(name) == [name |-> name, upper |-> FALSE, padded |-> FALSE]

toLowerCase(k) == [k EXCEPT !.upper = FALSE]

trim(k) == [k EXCEPT !.padded = FALSE]

(* A text with placeholders is a sequence of pieces: literal text, the     *)
(* placeholder {{key}} with the key exactly as written, or a phone number. *)
Lit(s) == [k |-> "lit", s |-> s]

Ph(key) == [k |-> "ph", key |-> key]

PhoneText(d) == [k |-> "digits", d |-> d]

(* the decimal numerals of the positional placeholders {{1}}, {{2}}, ... *)
IndexNames == <<"1", "2", "3", "4", "5", "6", "7", "8">>

IndexKey(i) == Key(IndexNames[i])

Digits == {"0", "1", "2", "3", "4", "5", "6", "7", "8", "9"}

IsDigit(c) == c \in Digits

(* PhoneValidationService.cleanPhone: strips every non-digit character *)
cleanPhone(phone) == SelectSeq(phone, IsDigit)

----------------------------------------------------------------------------
(* Tables *)

LineSegment(l) == ((l - 1) % NumSegments) + 1

LineRow(l, status, createdAt) ==
    [id |-> l, lineStatus |-> status, segment |-> LineSegment(l),
     createdAt |-> createdAt, oficial |-> FALSE]

SegmentName(s) == IF s = DefaultSegmentId THEN DefaultSegmentName ELSE "Cobrança"

SegmentRows(hasDefault) ==
    { [id |-> s, name |-> SegmentName(s)] :
        s \in IF hasDefault THEN SegmentIds ELSE SegmentIds \ {DefaultSegmentId} }

(* the query without its segment filter *)
findActiveLines_AnySegment(seg) ==
    SetToSortedSeq({ l \in DOMAIN linesStock : linesStock[l].lineStatus = "active" })

(* prisma.linesStock.findMany({ where: { lineStatus: 'active', segment? } }), *)
(* in id order                                                                *)
findActiveLines(seg) ==
    SetToSortedSeq({ l \in DOMAIN linesStock :
                        /\ linesStock[l].lineStatus = "active"
                        /\ (seg # NoSegment => linesStock[l].segment = seg) })

(* prisma.segment.findUnique({ where: { name } }) *)
findSegmentByName(name) == { s \in segment : s.name = name }

(* CampaignsService.create: the row of the campaign itself *)
create(dto, id, at) ==
    [id |-> id, name |-> dto.name, contactName |-> "", contactPhone |-> <<>>,
     contactSegment |-> dto.segment, lineReceptor |-> NoLine, speed |-> dto.speed,
     response |-> FALSE, useTemplate |-> dto.useTemplate,
     templateId |-> dto.templateId,
     templateVariables |-> dto.templateVariables, message |-> Undefined,
     messageId |-> [tag |-> "null"], dispatchedAt |-> Undefined,
     retryCount |-> 0, createdAt |-> at]

----------------------------------------------------------------------------
(* The contacts of an upload *)

RawPhones == << <<"1", "1">>, <<"1", "-", "1">>, <<"2", " ", "2">> >>
ContactNames == <<"Ana", "">>

(* the k-th row (0-based) of the uploaded file *)
ContactRow(k) ==
    [name |-> ContactNames[(k % 2) + 1],
     phone |-> RawPhones[(k % 3) + 1],
     cpf |-> IF k % 4 = 3 THEN "123" ELSE "",
     contract |-> "",
     message |-> CASE k % 5 = 2 -> Text("oferta")
                   [] k % 5 = 4 -> JSONstringify([t |-> "object",
                                                  greeting |-> <<"Oi">>,
                                                  content |-> Text("oferta"),
                                                  csvVariables |-> <<>>])
                   [] OTHER -> Undefined,
     variables |-> IF k % 2 = 1
                   THEN Some(<<[key |-> Key("link"), value |-> <<Lit("http")>>]>>)
                   ELSE Undefined]

HARDCODED_GREETINGS == <<"Olá, tudo bem?", "Oi, tudo certo?">>

----------------------------------------------------------------------------
(* CampaignsService.uploadCampaign *)

(* no call of the rate limiter answered since the last event *)
RlIdle == [op |-> "none"]

(* no call of the parser or renderer made *)
RdIdle == [op |-> "none"]

(* the presence scheduler before its first cycle *)
PrIdle == [pc |-> "idle", cycle |-> 0, activeLines |-> <<>>, i |-> 1,
           calls |-> <<>>, timers |-> {}, error |-> ""]

(* the worker has no job and its collaborators hold nothing *)
WorkerUnused ==
    /\ blocklist = {}
    /\ evolution = {}
    /\ template = <<>>
    /\ lineOperator = <<>>
    /\ templateMessage = <<>>
    /\ jobs = <<>>
    /\ faults = 0
    /\ rd = RdIdle
    /\ pr = PrIdle

UpIdle ==
    [pc |-> "idle", campaignId |-> 0, n |-> 0, message |-> Undefined,
     useTemplate |-> Undefined, templateId |-> Undefined,
     camp |-> Undefined, availableLines |-> <<>>, i |-> 0,
     accumulatedDelayMs |-> 0, longPauses |-> <<>>, error |-> "",
     result |-> Undefined]

(* the fallback taking the default segment's lines whatever their status *)
resolveAvailableLines_AnyStatus(camp) ==
    LET segmentLines == findActiveLines(camp.contactSegment)
        defaultSegment == findSegmentByName(DefaultSegmentName)
    IN  IF Len(segmentLines) # 0 THEN segmentLines
        ELSE IF defaultSegment # {}
             THEN SetToSortedSeq({ l \in DOMAIN linesStock :
                    linesStock[l].segment = (CHOOSE d \in defaultSegment : TRUE).id })
             ELSE <<>>

(* the pool of lines: the active lines of the campaign's segment, else the *)
(* active lines of the segment named 'Padrão'                              *)
resolveAvailableLines(camp) ==
    LET segmentLines == findActiveLines(camp.contactSegment)
        defaultSegment == findSegmentByName(DefaultSegmentName)
    IN  IF Len(segmentLines) # 0 THEN segmentLines
        ELSE IF defaultSegment # {}
             THEN findActiveLines((CHOOSE d \in defaultSegment : TRUE).id)
             ELSE <<>>

finalUseTemplate(useTemplate, camp) ==
    IF useTemplate # Undefined THEN useTemplate.v ELSE camp.useTemplate

finalTemplateId(templateId, camp) ==
    IF templateId # Undefined THEN templateId.v ELSE camp.templateId

(* the rotation starting one line too far *)
assignLine_OffByOne(i, availableLines) ==
    availableLines[((i + 1) % Len(availableLines)) + 1]

(* const lineIndex = i % availableLines.length; availableLines[lineIndex] *)
assignLine(i, availableLines) == availableLines[(i % Len(availableLines)) + 1]

(* the draw without its minimum *)
randomDelay_NoMinimum(r) == (r * (maxDelaySeconds - minDelaySeconds)) \div RandDen

(* minDelay + Math.random() * (maxDelay - minDelay), in seconds *)
randomDelay(r) == minDelaySeconds + (r * (maxDelaySeconds - minDelaySeconds)) \div RandDen

(* (5 + Math.random() * 10) minutes, in seconds *)
longPause(r) == longPauseMinSeconds + (r * longPauseSpanSeconds) \div RandDen

(* the pause also after the last contact *)
longPauseDue_AlsoAfterLast(i, n) == (i + 1) % LongPauseEvery = 0

(* (i + 1) % 20 === 0 && i < contacts.length - 1 *)
longPauseDue(i, n) == (i + 1) % LongPauseEvery = 0 /\ i < n - 1

(* HARDCODED_CONTENTS[Math.floor(Math.random() * HARDCODED_CONTENTS.length)] *)
hardcodedContent(r) == Text(<<"promo", (r * NumHardcodedContents) \div RandDen>>)

needsWrapper(contactMessage) ==
    ~Truthy(contactMessage) \/ ~StartsWithBrace(contactMessage)

GREETINGS ==
    IF Len(controlPanel.greetingMessages) > 0
    THEN controlPanel.greetingMessages ELSE HARDCODED_GREETINGS

(* the message stored and queued for one contact *)
buildContactMessage(contact, message, useTpl, r) ==
    LET contactMessage == IF Truthy(contact.message) THEN contact.message ELSE message
    IN  IF needsWrapper(contactMessage)
        THEN JSONstringify(
               [t |-> "object",
                greeting |-> GREETINGS,
                content |-> IF useTpl THEN Text("__TEMPLATE_FLOW__")
                            ELSE hardcodedContent(r),
                csvVariables |-> IF contact.variables # Undefined
                                 THEN contact.variables.v ELSE <<>>])
        ELSE contactMessage

(* whether building the message of this contact draws a random content *)
drawsContent(contact, message, useTpl) ==
    /\ needsWrapper(IF Truthy(contact.message) THEN contact.message ELSE message)
    /\ ~useTpl

(* data of prisma.campaign.create for one contact *)
campaignRecord(id, camp, contact, phone, lineId, useTpl, tplId, msg, acc, at) ==
    [id |-> id, name |-> camp.name, contactName |-> contact.name,
     contactPhone |-> phone, contactSegment |-> camp.contactSegment,
     lineReceptor |-> lineId, speed |-> "slow", response |-> FALSE,
     useTemplate |-> useTpl, templateId |-> tplId,
     templateVariables |-> camp.templateVariables, message |-> msg,
     messageId |-> [tag |-> "SCHEDULED", at |-> at + acc],
     dispatchedAt |-> Undefined, retryCount |-> 0, createdAt |-> at]

(* the job enqueued with the delay of the batch's first contact *)
campaignJob_NoDelay(rec, contact, phone, lineId, useTpl, tplId, msg, acc) ==
    [name |-> "send-campaign-message",
     data |-> [campaignId |-> rec.id, contactName |-> contact.name,
               contactPhone |-> phone, contactSegment |-> rec.contactSegment,
               lineId |-> lineId, message |-> msg, useTemplate |-> useTpl,
               templateId |-> tplId,
               templateVariables |-> rec.templateVariables],
     opts |-> [delay |-> 0, attempts |-> JobAttempts,
               backoff |-> [type |-> "exponential", delay |-> JobBackoffSeconds]]]

(* campaignsQueue.add('send-campaign-message', data, opts) *)
campaignJob(rec, contact, phone, lineId, useTpl, tplId, msg, acc) ==
    [name |-> "send-campaign-message",
     data |-> [campaignId |-> rec.id, contactName |-> contact.name,
               contactPhone |-> phone, contactSegment |-> rec.contactSegment,
               lineId |-> lineId, message |-> msg, useTemplate |-> useTpl,
               templateId |-> tplId,
               templateVariables |-> rec.templateVariables],
     opts |-> [delay |-> acc, attempts |-> JobAttempts,
               backoff |-> [type |-> "exponential", delay |-> JobBackoffSeconds]]]

(* contactsService.findByPhone / create / update *)
upsertContact(table, contact, phone, seg) ==
    IF phone \notin DOMAIN table
    THEN [p \in DOMAIN table \cup {phone} |->
            IF p = phone
            THEN [name |-> contact.name, cpf |-> contact.cpf,
                  contract |-> contact.contract, segment |-> seg]
            ELSE table[p]]
    ELSE IF contact.cpf # "" \/ contact.contract # ""
         THEN [table EXCEPT
                 ![phone].cpf = IF contact.cpf # "" THEN contact.cpf ELSE @,
                 ![phone].contract = IF contact.contract # "" THEN contact.contract ELSE @]
         ELSE table

(* the call: the campaign lookup and the resolution of the pool *)
uploadStart(campaignId, n, message, useTemplate, templateId) ==
    /\ up.pc = "idle"
    /\ LET call == [up EXCEPT !.campaignId = campaignId, !.n = n,
                              !.message = message, !.useTemplate = useTemplate,
                              !.templateId = templateId]
       IN  IF campaignId \notin DOMAIN campaign
           THEN up' = [call EXCEPT !.pc = "failed", !.error = "NotFoundException"]
           ELSE LET camp == campaign[campaignId]
                    pool == resolveAvailableLines(camp)
                IN  IF Len(pool) = 0
                    THEN up' = [call EXCEPT !.pc = "failed", !.camp = camp,
                                            !.error = "BadRequestException"]
                    ELSE up' = [call EXCEPT !.pc = "loop", !.camp = camp,
                                            !.availableLines = pool]
    /\ UNCHANGED <<now, seed, randCalls, linesStock, segment, controlPanel,
                   campaign, campaignSeq, contactTable, campaignsQueue,
                   conversation, rl, bursts>>
    /\ UNCHANGED workerVars

(* one iteration of the loop over the contacts *)
uploadContact ==
    /\ up.pc = "loop"
    /\ up.i < up.n
    /\ LET i == up.i
           contact == ContactRow(i)
           normalizedPhone == cleanPhone(contact.phone)
           lineId == assignLine(i, up.availableLines)
           useTpl == finalUseTemplate(up.useTemplate, up.camp)
           tplId == finalTemplateId(up.templateId, up.camp)
           drawsC == drawsContent(contact, up.message, useTpl)
           msg == buildContactMessage(contact, up.message, useTpl,
                                      MathRandom(seed, randCalls))
           calls1 == randCalls + (IF drawsC THEN 1 ELSE 0)
           rec == campaignRecord(campaignSeq + 1, up.camp, contact, normalizedPhone,
                                 lineId, useTpl, tplId, msg, up.accumulatedDelayMs, now)
           job == campaignJob(rec, contact, normalizedPhone, lineId, useTpl, tplId,
                              msg, up.accumulatedDelayMs)
           acc1 == up.accumulatedDelayMs + randomDelay(MathRandom(seed, calls1))
           due == longPauseDue(i, up.n)
           acc2 == IF due THEN acc1 + longPause(MathRandom(seed, calls1 + 1)) ELSE acc1
       IN  /\ contactTable' = upsertContact(contactTable, contact, normalizedPhone,
                                            up.camp.contactSegment)
           /\ campaign' = [id \in DOMAIN campaign \cup {rec.id} |->
                             IF id = rec.id THEN rec ELSE campaign[id]]
           /\ campaignSeq' = campaignSeq + 1
           /\ campaignsQueue' = Append(campaignsQueue, job)
           /\ randCalls' = calls1 + 1 + (IF due THEN 1 ELSE 0)
           /\ now' = now + ((seed + i) % 2)
           /\ up' = [up EXCEPT !.i = i + 1, !.accumulatedDelayMs = acc2,
                               !.longPauses = IF due THEN Append(@, i + 1) ELSE @]
    /\ UNCHANGED <<seed, linesStock, segment, controlPanel, conversation, rl, bursts>>
    /\ UNCHANGED workerVars

(* the summary returned after the last contact *)
uploadReturn ==
    /\ up.pc = "loop"
    /\ up.i = up.n
    /\ up' = [up EXCEPT !.pc = "done",
                        !.result = [totalContacts |-> up.n,
                                    lines |-> Len(up.availableLines),
                                    estimatedCompletion |-> now + up.accumulatedDelayMs]]
    /\ UNCHANGED <<now, seed, randCalls, linesStock, segment, controlPanel,
                   campaign, campaignSeq, contactTable, campaignsQueue,
                   conversation, rl, bursts>>
    /\ UNCHANGED workerVars

----------------------------------------------------------------------------
(* The upload of one file to one campaign *)

CampaignDtos ==
    { [name |-> "camp", segment |-> sg, speed |-> "fast", useTemplate |-> ut,
       templateId |-> IF ut THEN 1 ELSE NoTemplate,
       templateVariables |-> Undefined] :
         sg \in {NoSegment} \cup SegmentIds, ut \in {FALSE} }

InitUpload ==
    /\ now = 1000
    /\ seed \in 0..(NumSeeds - 1)
    /\ randCalls = 0
    /\ \E st \in [LineIds -> {"active", "inactive"}] :
         linesStock = [l \in LineIds |-> LineRow(l, st[l], 0)]
    /\ \E hasDefault \in BOOLEAN : segment = SegmentRows(hasDefault)
    /\ controlPanel \in { [greetingMessages |-> <<>>],
                          [greetingMessages |-> <<"Bom dia">>] }
    /\ \E dto \in CampaignDtos : campaign = [id \in {1} |-> create(dto, 1, 0)]
    /\ campaignSeq = 1
    /\ contactTable = <<>>
    /\ campaignsQueue = <<>>
    /\ conversation = EmptyBag
    /\ up = UpIdle
    /\ rl = RlIdle
    /\ bursts = 0
    /\ WorkerUnused

(* sizes of the uploaded file: small ones, and those around a long pause *)
BatchSizes == (0..3) \cup ((LongPauseEvery - 1)..MaxContacts)

NextUpload ==
    \/ \E campaignId \in {1, 2}, n \in BatchSizes,
          message \in {Undefined, Text("global")},
          useTemplate \in {Undefined, Some(TRUE)} :
         uploadStart(campaignId, n, message, useTemplate, Undefined)
    \/ uploadContact
    \/ uploadReturn

SpecUpload == InitUpload /\ [][NextUpload]_vars

----------------------------------------------------------------------------
(* Properties of uploadCampaign *)

(* the upload has passed the pool resolution *)
UploadRunning == up.pc \in {"loop", "done"}

(* the job and the record of the contact at 0-based index i *)
JobOf(i) == campaignsQueue[i + 1]
RecordOf(i) == campaign[JobOf(i).data.campaignId]

(* C1: the contact at 0-based index i gets line pool[i mod n], written to *)
(* its Campaign record and to its job payload alike.                       *)
C1_RoundRobin ==
    UploadRunning =>
        \A i \in 0..(Len(campaignsQueue) - 1) :
            LET pool == up.availableLines
                expected == pool[(i % Len(pool)) + 1]
            IN  /\ JobOf(i).data.lineId = expected
                /\ RecordOf(i).lineReceptor = expected

C1_Witness ==
    /\ up.pc = "done"
    /\ Len(up.availableLines) = 3
    /\ Len(campaignsQueue) = MaxContacts
    /\ JobOf(4).data.lineId = up.availableLines[2]

(* C2: the first delay is 0 and each next delay exceeds the previous one  *)
(* by a draw of 30 s to 150 s, plus a pause of 5 to 15 minutes where one  *)
(* was inserted; no two jobs of the batch share a delay.                  *)
C2_DelaysIncrease ==
    UploadRunning =>
        /\ Len(campaignsQueue) > 0 => JobOf(0).opts.delay = 0
        /\ \A i \in 0..(Len(campaignsQueue) - 2) :
             LET d == JobOf(i + 1).opts.delay - JobOf(i).opts.delay
                 paused == \E k \in 1..Len(up.longPauses) : up.longPauses[k] = i + 1
             IN  IF paused
                 THEN 30 + 300 <= d /\ d <= 150 + 900
                 ELSE 30 <= d /\ d <= 150
        /\ \A i, j \in 0..(Len(campaignsQueue) - 1) :
             i < j => JobOf(i).opts.delay < JobOf(j).opts.delay

C2_Witness ==
    /\ up.pc = "done"
    /\ Len(campaignsQueue) = MaxContacts
    /\ \E i \in 0..(Len(campaignsQueue) - 2) :
         JobOf(i + 1).opts.delay - JobOf(i).opts.delay = 30
    /\ \E i \in 0..(Len(campaignsQueue) - 2) :
         JobOf(i + 1).opts.delay - JobOf(i).opts.delay > 140

(* the 1-based positions after which a batch of n contacts pauses *)
ExpectedPauses(n) == { k \in 1..(n - 1) : k % 20 = 0 }

(* C3: a long pause is inserted after contact i exactly when i+1 is a     *)
(* multiple of 20 and contact i is not the last one: a batch of n >= 1    *)
(* contacts holds floor((n-1)/20) pauses, none after the final contact.   *)
C3_LongPauses ==
    /\ UploadRunning =>
         /\ { up.longPauses[k] : k \in 1..Len(up.longPauses) }
              = { p \in ExpectedPauses(up.n) : p <= up.i }
         /\ \A i \in 0..(Len(campaignsQueue) - 2) :
              (JobOf(i + 1).opts.delay - JobOf(i).opts.delay > 150)
                 <=> ((i + 1) % 20 = 0)
    /\ (up.pc = "done" /\ up.n >= 1) =>
         /\ Len(up.longPauses) = (up.n - 1) \div 20
         /\ up.accumulatedDelayMs - JobOf(up.n - 1).opts.delay <= 150

C3_Witness ==
    /\ up.pc = "done"
    /\ up.n = 21
    /\ up.longPauses = <<20>>
    /\ JobOf(20).opts.delay - JobOf(19).opts.delay >= 330

(* C4: a successful upload of n contacts leaves n records and n jobs; job *)
(* i references record i, carries its phone, line and message, is delayed *)
(* by the delay of the record's SCHEDULED marker, retries 3 times with    *)
(* exponential backoff from 2 s; every record starts with response=false. *)
C4_OneJobPerRecord ==
    UploadRunning =>
        /\ Len(campaignsQueue) = up.i
        /\ Cardinality(DOMAIN campaign) = up.i + 1
        /\ up.pc = "done" => up.i = up.n
        /\ \A i \in 0..(Len(campaignsQueue) - 1) :
             LET job == JobOf(i)
                 id == job.data.campaignId
             IN  /\ id \in DOMAIN campaign
                 /\ \A j \in 0..(Len(campaignsQueue) - 1) :
                      JobOf(j).data.campaignId = id => j = i
                 /\ campaign[id].contactPhone = job.data.contactPhone
                 /\ campaign[id].contactPhone = cleanPhone(ContactRow(i).phone)
                 /\ campaign[id].lineReceptor = job.data.lineId
                 /\ campaign[id].message = job.data.message
                 /\ campaign[id].messageId.tag = "SCHEDULED"
                 /\ campaign[id].messageId.at = campaign[id].createdAt + job.opts.delay
                 /\ job.opts.attempts = 3
                 /\ job.opts.backoff = [type |-> "exponential", delay |-> 2]
                 /\ campaign[id].response = FALSE

C4_Witness ==
    /\ up.pc = "done"
    /\ up.n = MaxContacts
    /\ Len(campaignsQueue) = MaxContacts
    /\ campaign[JobOf(2).data.campaignId].messageId.at > now

(* an active line exists in segment sg (in any segment when sg is none) *)
HasActiveLine(sg) ==
    \E l \in DOMAIN linesStock :
        /\ linesStock[l].lineStatus = "active"
        /\ (sg = NoSegment \/ linesStock[l].segment = sg)

(* no active line in the campaign's segment nor in the default segment *)
NoLineResolvable(camp) ==
    /\ ~HasActiveLine(camp.contactSegment)
    /\ \A d \in segment : d.name = "Padrão" => ~HasActiveLine(d.id)

(* C5: with no active line in the campaign's segment nor in the default   *)
(* segment the upload is rejected and has created no record, no contact   *)
(* and no job.                                                            *)
C5_RejectedAtomically ==
    /\ (up.pc # "idle" /\ up.campaignId \in DOMAIN campaign
          /\ NoLineResolvable(campaign[up.campaignId])) =>
         /\ up.pc = "failed"
         /\ up.error = "BadRequestException"
    /\ up.pc = "failed" =>
         /\ campaignsQueue = <<>>
         /\ DOMAIN contactTable = {}
         /\ DOMAIN campaign = {1}
         /\ campaign[1].messageId = [tag |-> "null"]
         /\ up.result = Undefined

C5_Witness ==
    /\ up.pc = "failed"
    /\ up.error = "BadRequestException"
    /\ up.n = 3
    /\ \E l \in DOMAIN linesStock : linesStock[l].lineStatus = "active"

(* C6 as stated: every line of the pool is active and of the campaign's   *)
(* segment, or of the default segment when the campaign's segment has no  *)
(* active line; never a line of another segment.                          *)
C6_PoolInSegment ==
    UploadRunning =>
        \A k \in 1..Len(up.availableLines) :
            LET line == linesStock[up.availableLines[k]]
                sg == up.camp.contactSegment
            IN  /\ line.lineStatus = "active"
                /\ \/ line.segment = sg
                   \/ /\ \A l \in DOMAIN linesStock :
                           linesStock[l].segment = sg => linesStock[l].lineStatus # "active"
                      /\ \E d \in segment : d.name = "Padrão" /\ d.id = line.segment

(* C6 amended: the above for a campaign that has a segment; a campaign    *)
(* without one gets every active line, whatever its segment; the pool     *)
(* never holds an inactive line.                                          *)
C6_PoolInSegmentOrAll ==
    UploadRunning =>
        LET sg == up.camp.contactSegment
            pool == { up.availableLines[k] : k \in 1..Len(up.availableLines) }
            activeIn(x) == { l \in DOMAIN linesStock :
                               /\ linesStock[l].lineStatus = "active"
                               /\ linesStock[l].segment = x }
            active == { l \in DOMAIN linesStock : linesStock[l].lineStatus = "active" }
        IN  /\ pool # {}
            /\ Cardinality(pool) = Len(up.availableLines)
            /\ IF sg = NoSegment THEN pool = active
               ELSE IF activeIn(sg) # {} THEN pool = activeIn(sg)
               ELSE \E d \in segment : d.name = "Padrão" /\ pool = activeIn(d.id)

C6_Witness ==
    /\ up.pc = "loop"
    /\ up.camp.contactSegment = 1
    /\ up.availableLines = <<2>>
    /\ linesStock[1].lineStatus = "inactive"

----------------------------------------------------------------------------
(* RateLimitingService *)

(* baseLimits *)
baseLimits(tier) ==
    CASE tier = "newLine" -> [daily |-> 300, hourly |-> 50]
      [] tier = "warmingUp" -> [daily |-> 450, hourly |-> 80]
      [] tier = "mature" -> [daily |-> 450, hourly |-> 80]

(* the boundary taken one day late *)
limitTier_LateBoundary(lineAge) ==
    IF lineAge <= 7 THEN "newLine"
    ELSE IF lineAge <= 30 THEN "warmingUp"
    ELSE "mature"

(* the branch getLimit takes for a line of this age *)
limitTier(lineAge) ==
    IF lineAge < 7 THEN "newLine"
    ELSE IF lineAge < 30 THEN "warmingUp"
    ELSE "mature"

(* getLimit *)
getLimit(lineAge) == baseLimits(limitTier(lineAge))

(* getLineAge: Math.floor((now - createdAt) / one day) *)
getLineAge(createdAt) == (now - createdAt) \div DaySeconds

(* today.setHours(0, 0, 0, 0): the last local midnight *)
startOfToday == now - (now % DaySeconds)

(* oneHourAgo.setHours(oneHourAgo.getHours() - 1) *)
oneHourAgo == now - HourSeconds

(* prisma.conversation.count({ userLine, sender: 'operator', datetime >= since }) *)
countOperatorMessages(lineId, since) ==
    BagCardinality(
        [c \in { d \in BagToSet(conversation) :
                    /\ d.userLine = lineId
                    /\ d.sender = "operator"
                    /\ d.datetime >= since } |-> conversation[c]])

(* the comparison with a boundary off by one *)
withinLimit_Inclusive(messagesToday, messagesLastHour, limit) ==
    messagesToday <= limit.daily /\ messagesLastHour <= limit.hourly

(* messagesToday < limit.daily && messagesLastHour < limit.hourly *)
withinLimit(messagesToday, messagesLastHour, limit) ==
    messagesToday < limit.daily /\ messagesLastHour < limit.hourly

DataAccessPoints == {"none", "findLine", "countToday", "countLastHour"}

(* a failure swallowed only when the line lookup is what failed *)
canSendResult_FailClosedOnCount(lineId, failAt) ==
    IF failAt = "findLine" THEN TRUE
    ELSE IF failAt # "none" THEN FALSE
    ELSE IF lineId \notin DOMAIN linesStock THEN FALSE
    ELSE withinLimit(countOperatorMessages(lineId, startOfToday),
                     countOperatorMessages(lineId, oneHourAgo),
                     getLimit(getLineAge(linesStock[lineId].createdAt)))

(* the value canSendMessage returns when the data access at failAt throws *)
canSendResult(lineId, failAt) ==
    IF failAt = "findLine" THEN TRUE
    ELSE IF lineId \notin DOMAIN linesStock THEN FALSE
    ELSE IF failAt # "none" THEN TRUE
    ELSE withinLimit(countOperatorMessages(lineId, startOfToday),
                     countOperatorMessages(lineId, oneHourAgo),
                     getLimit(getLineAge(linesStock[lineId].createdAt)))

(* the outcome without the check of the line *)
rateLimitInfo_NoLineCheck(lineId, failAt) ==
    IF failAt # "none"
    THEN [threw |-> TRUE, error |-> "DataAccessError"]
    ELSE LET lineAge == IF lineId \in DOMAIN linesStock
                        THEN getLineAge(linesStock[lineId].createdAt) ELSE 0
             limit == getLimit(lineAge)
             messagesToday == countOperatorMessages(lineId, startOfToday)
             messagesLastHour == countOperatorMessages(lineId, oneHourAgo)
         IN  [threw |-> FALSE, lineAge |-> lineAge, limit |-> limit,
              messagesToday |-> messagesToday,
              messagesLastHour |-> messagesLastHour,
              canSend |-> withinLimit(messagesToday, messagesLastHour, limit)]

(* the outcome of getRateLimitInfo when the data access at failAt throws *)
rateLimitInfo(lineId, failAt) ==
    IF failAt = "findLine"
    THEN [threw |-> TRUE, error |-> "DataAccessError"]
    ELSE IF lineId \notin DOMAIN linesStock
    THEN [threw |-> TRUE, error |-> "BadRequestException"]
    ELSE IF failAt # "none"
    THEN [threw |-> TRUE, error |-> "DataAccessError"]
    ELSE LET lineAge == getLineAge(linesStock[lineId].createdAt)
             limit == getLimit(lineAge)
             messagesToday == countOperatorMessages(lineId, startOfToday)
             messagesLastHour == countOperatorMessages(lineId, oneHourAgo)
         IN  [threw |-> FALSE, lineAge |-> lineAge, limit |-> limit,
              messagesToday |-> messagesToday,
              messagesLastHour |-> messagesLastHour,
              canSend |-> withinLimit(messagesToday, messagesLastHour, limit)]

(* the tables a call of the service could touch *)
stored == <<linesStock, segment, campaign, contactTable, campaignsQueue, conversation>>

canSendMessage(lineId, failAt) ==
    /\ rl = RlIdle
    /\ rl' = [op |-> "canSendMessage", lineId |-> lineId, failAt |-> failAt,
              threw |-> FALSE, ret |-> canSendResult(lineId, failAt),
              before |-> stored]
    /\ UNCHANGED <<now, seed, randCalls, linesStock, segment, controlPanel, campaign,
                   campaignSeq, contactTable, campaignsQueue, conversation, up, bursts>>
    /\ UNCHANGED workerVars

getRateLimitInfo(lineId, failAt) ==
    /\ rl = RlIdle
    /\ rl' = [op |-> "getRateLimitInfo", lineId |-> lineId, failAt |-> failAt,
              out |-> rateLimitInfo(lineId, failAt), before |-> stored]
    /\ UNCHANGED <<now, seed, randCalls, linesStock, segment, controlPanel, campaign,
                   campaignSeq, contactTable, campaignsQueue, conversation, up, bursts>>
    /\ UNCHANGED workerVars

----------------------------------------------------------------------------
(* The rate limiter over a history of sent messages *)

(* 21:00 local time of some day: three hours before the next midnight *)
StartTime == 50 * DaySeconds + 21 * HourSeconds

(* creation times of the line under test: just created; 7 days, 30 days   *)
(* old one hour from the start; long established                          *)
CreatedAts ==
    { StartTime,
      StartTime + HourSeconds - 7 * DaySeconds,
      StartTime + HourSeconds - 30 * DaySeconds,
      StartTime - 45 * DaySeconds }

BurstSizes == {1, 49, 79, 299, 449}

(* conversationsService.create({ userLine, sender: 'operator', ... }), k times *)
operatorMessages(lineId, k) ==
    /\ bursts < MaxBursts
    /\ bursts' = bursts + 1
    /\ conversation' = conversation (+)
         [c \in {[userLine |-> lineId, sender |-> "operator", datetime |-> now]} |-> k]
    /\ rl' = RlIdle
    /\ UNCHANGED <<now, seed, randCalls, linesStock, segment, controlPanel, campaign,
                   campaignSeq, contactTable, campaignsQueue, up>>
    /\ UNCHANGED workerVars

(* a message received from a contact on the line *)
contactMessage(lineId) ==
    /\ bursts < MaxBursts
    /\ bursts' = bursts + 1
    /\ conversation' = conversation (+)
         SetToBag({[userLine |-> lineId, sender |-> "contact", datetime |-> now]})
    /\ rl' = RlIdle
    /\ UNCHANGED <<now, seed, randCalls, linesStock, segment, controlPanel, campaign,
                   campaignSeq, contactTable, campaignsQueue, up>>
    /\ UNCHANGED workerVars

(* an hour passes *)
tick ==
    /\ now < StartTime + MaxTicks * TickSeconds
    /\ now' = now + TickSeconds
    /\ rl' = RlIdle
    /\ UNCHANGED <<seed, randCalls, linesStock, segment, controlPanel, campaign,
                   campaignSeq, contactTable, campaignsQueue, conversation, up, bursts>>
    /\ UNCHANGED workerVars

ExistingLines == LineIds \ {NumLines}

(* the line under test, another line with traffic, a line not in the table *)
RateLines == {1, 2, NumLines}

InitRate ==
    /\ now = StartTime
    /\ seed = 0
    /\ randCalls = 0
    /\ \E c \in CreatedAts :
         linesStock = [l \in ExistingLines |->
                         LineRow(l, "active", IF l = 1 THEN c ELSE StartTime - 45 * DaySeconds)]
    /\ segment = SegmentRows(TRUE)
    /\ controlPanel = [greetingMessages |-> <<>>]
    /\ campaign = <<>>
    /\ campaignSeq = 0
    /\ contactTable = <<>>
    /\ campaignsQueue = <<>>
    /\ conversation = EmptyBag
    /\ up = UpIdle
    /\ rl = RlIdle
    /\ bursts = 0
    /\ WorkerUnused

NextRate ==
    \/ \E k \in BurstSizes : operatorMessages(1, k)
    \/ operatorMessages(2, 1)
    \/ contactMessage(1)
    \/ tick
    \/ \E l \in RateLines, f \in DataAccessPoints : canSendMessage(l, f)
    \/ \E l \in RateLines, f \in DataAccessPoints : getRateLimitInfo(l, f)

SpecRate == InitRate /\ [][NextRate]_vars

----------------------------------------------------------------------------
(* Properties of the rate limiter *)

RECURSIVE SumCounts(_)
SumCounts(rows) ==
    IF rows = {} THEN 0
    ELSE LET r == CHOOSE x \in rows : TRUE
         IN  conversation[r] + SumCounts(rows \ {r})

(* messages the line sent at or after the given time *)
SentSince(l, since) ==
    SumCounts({ r \in DOMAIN conversation :
                  r.userLine = l /\ r.sender = "operator" /\ r.datetime >= since })

(* the most recent midnight: the largest multiple of a day not after now *)
Midnight == (now \div 86400) * 86400

SentToday(l) == SentSince(l, Midnight)
SentLastHour(l) == SentSince(l, now - 3600)

(* whole days since the line was created *)
AgeInDays(l) == CHOOSE a \in 0..100 :
                   a * 86400 <= now - linesStock[l].createdAt
                   /\ now - linesStock[l].createdAt < (a + 1) * 86400

DailyLimit(age) == IF age < 7 THEN 300 ELSE 450
HourlyLimit(age) == IF age < 7 THEN 50 ELSE 80

(* a canSendMessage call on an existing line whose data accesses succeeded *)
CanSendAnswered ==
    /\ rl.op = "canSendMessage"
    /\ rl.failAt = "none"
    /\ rl.lineId \in DOMAIN linesStock

(* C7: canSendMessage returns true exactly when today's count is below    *)
(* the daily limit and the last hour's count below the hourly limit of    *)
(* the line's tier, and false exactly when one of them has met its limit. *)
C7_CanSendIffBelowLimits ==
    CanSendAnswered =>
        LET l == rl.lineId
            age == AgeInDays(l)
        IN  /\ rl.ret = TRUE <=> (SentToday(l) < DailyLimit(age)
                                    /\ SentLastHour(l) < HourlyLimit(age))
            /\ rl.ret = FALSE <=> (SentToday(l) >= DailyLimit(age)
                                     \/ SentLastHour(l) >= HourlyLimit(age))

C7_Witness ==
    /\ CanSendAnswered
    /\ rl.ret = FALSE
    /\ AgeInDays(rl.lineId) = 7
    /\ SentLastHour(rl.lineId) = 80
    /\ SentToday(rl.lineId) = 80

(* a getRateLimitInfo call that returned *)
InfoReturned == rl.op = "getRateLimitInfo" /\ ~rl.out.threw

(* C8: the limits are those of the tier of the line's age in whole days:  *)
(* below 7 days 300 a day and 50 an hour, from 7 days on (7 and 30        *)
(* included) 450 a day and 80 an hour.                                    *)
C8_TierByAge ==
    InfoReturned =>
        LET age == AgeInDays(rl.lineId)
        IN  /\ rl.out.lineAge = age
            /\ age < 7 => rl.out.limit = [daily |-> 300, hourly |-> 50]
            /\ (7 <= age /\ age < 30) => rl.out.limit = [daily |-> 450, hourly |-> 80]
            /\ age >= 30 => rl.out.limit = [daily |-> 450, hourly |-> 80]

C8_Witness ==
    /\ InfoReturned
    /\ rl.out.lineAge = 7
    /\ rl.out.limit = [daily |-> 450, hourly |-> 80]
    /\ now - linesStock[rl.lineId].createdAt = 7 * 86400

(* a canSendMessage call one of whose data accesses threw *)
CanSendFailed ==
    /\ rl.op = "canSendMessage"
    /\ \/ rl.failAt = "findLine"
       \/ rl.failAt \in {"countToday", "countLastHour"}
            /\ rl.lineId \in DOMAIN linesStock

(* C9: when the line lookup or a count query throws, canSendMessage       *)
(* returns true and raises nothing, whatever the counts are.              *)
C9_FailOpen == CanSendFailed => (rl.ret = TRUE /\ ~rl.threw)

C9_Witness ==
    /\ CanSendFailed
    /\ rl.failAt = "countLastHour"
    /\ rl.ret = TRUE
    /\ SentLastHour(rl.lineId) >= HourlyLimit(AgeInDays(rl.lineId))

(* C10: getRateLimitInfo throws a domain error for a line that does not   *)
(* exist and never answers when a data access fails; for an existing line *)
(* it returns the age, the limit, both counts and canSend as              *)
(* canSendMessage computes it, and leaves the stored state as it was.     *)
C10_InfoOrDomainError ==
    rl.op = "getRateLimitInfo" =>
        /\ rl.before = stored
        /\ rl.failAt # "none" => rl.out.threw
        /\ (rl.lineId \notin DOMAIN linesStock /\ rl.failAt # "findLine") =>
              (rl.out.threw /\ rl.out.error = "BadRequestException")
        /\ (rl.lineId \in DOMAIN linesStock /\ rl.failAt = "none") =>
              /\ ~rl.out.threw
              /\ rl.out.lineAge = AgeInDays(rl.lineId)
              /\ rl.out.limit = [daily |-> DailyLimit(rl.out.lineAge),
                                 hourly |-> HourlyLimit(rl.out.lineAge)]
              /\ rl.out.messagesToday = SentToday(rl.lineId)
              /\ rl.out.messagesLastHour = SentLastHour(rl.lineId)
              /\ rl.out.canSend = canSendResult(rl.lineId, "none")

C10_Witness ==
    /\ rl.op = "getRateLimitInfo"
    /\ rl.lineId \notin DOMAIN linesStock
    /\ rl.out.threw
    /\ rl.out.error = "BadRequestException"
    /\ BagCardinality(conversation) > 0

----------------------------------------------------------------------------
(* CampaignsProcessor.handleSendMessage: reading the message of a job *)

(* JSON.parse: the decoding of an encoding, an error for any other text *)
JSONparse(m) ==
    IF m.t = "json" THEN [ok |-> TRUE, v |-> m.v] ELSE [ok |-> FALSE]

(* typeof v === 'string' *)
IsString(v) == v.t \in {"text", "json", "braced"}

HasField(o, f) == o.t = "object" /\ f \in DOMAIN o

(* the object whose keys are k.toLowerCase().trim(); a later raw key *)
(* overwrites an earlier one with the same lowered key               *)
lowerCsvVariables(rawVars) ==
    LET low(i) == trim(toLowerCase(rawVars[i].key))
    IN  [k \in { low(i) : i \in DOMAIN rawVars } |->
           rawVars[CHOOSE i \in DOMAIN rawVars :
                      /\ low(i) = k
                      /\ \A j \in DOMAIN rawVars : low(j) = k => j <= i].value]

(* globalCsvVariables: the CSV variables of the payload, {} when the *)
(* message is not read as JSON or reading it throws                  *)
globalCsvVariables(message) ==
    IF Truthy(message) /\ StartsWithBrace(message)
    THEN IF JSONparse(message).ok
         THEN LET parsed == JSONparse(message).v
              IN  IF IsString(parsed)
                  THEN IF JSONparse(parsed).ok
                          /\ HasField(JSONparse(parsed).v, "csvVariables")
                       THEN lowerCsvVariables(JSONparse(parsed).v.csvVariables)
                       ELSE <<>>
                  ELSE IF HasField(parsed, "csvVariables")
                       THEN lowerCsvVariables(parsed.csvVariables)
                       ELSE <<>>
         ELSE <<>>
    ELSE <<>>

(* SpintaxService.applySpintax of a greeting without {a|b} groups *)
applySpintax(greeting) == Text(greeting)

(* parsed.greeting[Math.floor(Math.random() * parsed.greeting.length)] *)
randomGreeting(greeting, r) == greeting[((r * Len(greeting)) \div RandDen) + 1]

DefaultMessage == Text("Olá! Esta é uma mensagem da nossa campanha.")

(* the locals of one execution that the greeting block reads and writes *)
Locals(message, finalMessage, useTemplate) ==
    [message |-> message, finalMessage |-> finalMessage,
     useTemplate |-> useTemplate, isGreetingFlow |-> FALSE, drew |-> FALSE]

(* the greeting block of one attempt: a wrapper with a greeting array makes *)
(* the attempt a greeting send in text mode; a text in braces that does not *)
(* parse has its content recovered into message, finalMessage staying       *)
greetingFlow(message, finalMessage, useTemplate, r) ==
    LET keep == Locals(message, finalMessage, useTemplate)
    IN  IF Truthy(message) /\ StartsWithBrace(message)
        THEN IF JSONparse(message).ok
             THEN LET first == JSONparse(message).v
                      parsed == IF IsString(first) /\ JSONparse(first).ok
                                THEN JSONparse(first).v ELSE first
                  IN  IF HasField(parsed, "greeting")
                      THEN LET text == applySpintax(randomGreeting(parsed.greeting, r))
                           IN  [message |-> text, finalMessage |-> text,
                                useTemplate |-> FALSE, isGreetingFlow |-> TRUE,
                                drew |-> TRUE]
                      ELSE keep
             ELSE IF message.content # Undefined
                  THEN [keep EXCEPT !.message = message.content]
                  ELSE keep
        ELSE keep

----------------------------------------------------------------------------
(* CampaignsProcessor.handleSendMessage: rendering a template *)

NameKeys == { Key("nome"), Key("name"), Key("cliente") }

PhoneKeys == { Key("telefone"), Key("phone"), Key("celular"), Key("mobile"),
               Key("whatsapp") }

(* a JSON array of template variables, as CreateCampaignDto carries it *)
Array(items) == [t |-> "array", items |-> items]

(* templateVariables ? (string ? JSON.parse(...) : templateVariables) : [] *)
parseTemplateVariables(templateVariables) ==
    IF templateVariables = Undefined THEN <<>>
    ELSE IF templateVariables.t = "json" THEN templateVariables.v.items
    ELSE templateVariables.items

(* template.bodyText.match(/{{[^}]+}}/g): the placeholders, in order *)
matchPlaceholders(bodyText) == SelectSeq(bodyText, LAMBDA piece : piece.k = "ph")

(* the detection keeping the first placeholder only *)
autoDetect_FirstOnly(variables, bodyText) ==
    LET matches == matchPlaceholders(bodyText)
    IN  IF Len(variables) = 0 /\ Len(matches) > 0
        THEN <<[key |-> trim(matches[1].key), value |-> <<matches[1]>>]>>
        ELSE variables

(* the variables read from the body when none were supplied: one per *)
(* placeholder found, its value the placeholder itself               *)
autoDetect(variables, bodyText) ==
    LET matches == matchPlaceholders(bodyText)
    IN  IF Len(variables) = 0 /\ Len(matches) > 0
        THEN [i \in 1..Len(matches) |->
                [key |-> trim(matches[i].key), value |-> <<matches[i]>>]]
        ELSE variables

(* contactName || 'Cliente' *)
nameValue(contactName) ==
    IF contactName # "" THEN <<Lit(contactName)>> ELSE <<Lit("Cliente")>>

(* cleanPhone || '' *)
phoneValue(phone) == IF Len(phone) > 0 THEN <<PhoneText(phone)>> ELSE <<>>

(* the resolution looking the key up in the CSV before the aliases *)
resolveVariable_CsvFirst(v, contactName, phone, csv) ==
    LET cleanKey == trim(v.key)
        keyLower == toLowerCase(cleanKey)
    IN  IF keyLower \in DOMAIN csv /\ csv[keyLower] # <<>>
        THEN [v EXCEPT !.value = csv[keyLower]]
        ELSE IF keyLower \in NameKeys
        THEN [v EXCEPT !.value = nameValue(contactName)]
        ELSE IF keyLower \in PhoneKeys
        THEN [v EXCEPT !.value = phoneValue(phone)]
        ELSE IF v.value = <<Ph(v.key)>> \/ v.value = <<>>
        THEN [v EXCEPT !.value = <<Ph(cleanKey)>>]
        ELSE v

(* the value of one variable: the contact's name, the phone, the CSV *)
(* value, the placeholder again, or the value the variable came with *)
resolveVariable(v, contactName, phone, csv) ==
    LET cleanKey == trim(v.key)
        keyLower == toLowerCase(cleanKey)
    IN  IF keyLower \in NameKeys
        THEN [v EXCEPT !.value = nameValue(contactName)]
        ELSE IF keyLower \in PhoneKeys
        THEN [v EXCEPT !.value = phoneValue(phone)]
        ELSE IF keyLower \in DOMAIN csv /\ csv[keyLower] # <<>>
        THEN [v EXCEPT !.value = csv[keyLower]]
        ELSE IF v.value = <<Ph(v.key)>> \/ v.value = <<>>
        THEN [v EXCEPT !.value = <<Ph(cleanKey)>>]
        ELSE v

(* String.prototype.replace with a string pattern: the first occurrence *)
replaceFirst(text, piece, value) ==
    IF \E i \in DOMAIN text : text[i] = piece
    THEN LET i == CHOOSE i \in DOMAIN text :
                    text[i] = piece /\ \A j \in 1..(i - 1) : text[j] # piece
         IN  SubSeq(text, 1, i - 1) \o value \o SubSeq(text, i + 1, Len(text))
    ELSE text

(* the two replacements of the variable at position index (1-based) *)
replaceVariable(text, v, index) ==
    replaceFirst(replaceFirst(text, Ph(IndexKey(index)), v.value), Ph(v.key), v.value)

(* variables.forEach((v, index) => { templateText = ... }) *)
RECURSIVE replaceVariables(_, _, _)
replaceVariables(text, variables, index) ==
    IF index > Len(variables) THEN text
    ELSE replaceVariables(replaceVariable(text, variables[index], index),
                          variables, index + 1)

(* the variables and the text of a template send *)
renderTemplate(bodyText, templateVariables, contactName, phone, csv) ==
    LET supplied == parseTemplateVariables(templateVariables)
        detected == autoDetect(supplied, bodyText)
        variables == [i \in 1..Len(detected) |->
                        resolveVariable(detected[i], contactName, phone, csv)]
    IN  [variables |-> variables,
         templateText |-> replaceVariables(bodyText, variables, 1)]

(* sendTemplateViaEvolution: the text of the plain-text fallback *)
evolutionMessageText(bodyText, variables) == replaceVariables(bodyText, variables, 1)

----------------------------------------------------------------------------
(* The parser and the renderer over a set of payloads and templates *)

(* the key ' Link ' of a CSV column or of a placeholder *)
LinkKey == [name |-> "link", upper |-> TRUE, padded |-> TRUE]

CsvColumns ==
    << [key |-> LinkKey, value |-> <<Lit("http")>>],
       [key |-> Key("nome"), value |-> <<Lit("Zé")>>],
       [key |-> Key("cor"), value |-> <<>>] >>

WrapperObjects ==
    { [t |-> "object", greeting |-> <<"Oi", "Olá">>, content |-> Text("oferta"),
       csvVariables |-> csv] : csv \in {<<>>, CsvColumns} }

PlainObjects ==
    { [t |-> "object", content |-> Text("oferta"), csvVariables |-> CsvColumns],
      [t |-> "object", content |-> Text("oferta")] }

(* the messages a job can carry *)
Messages ==
    {Undefined, Text("oferta"), Braced(Text("oferta")), Braced(Undefined)}
    \cup { JSONstringify(o) : o \in WrapperObjects \cup PlainObjects }
    \cup { JSONstringify(JSONstringify(o)) : o \in WrapperObjects }

BodyPieces ==
    { Lit("Oi"), Ph(Key("nome")), Ph(Key("1")), Ph(LinkKey), Ph(Key("cor")) }

Bodies == UNION { [1..n -> BodyPieces] : n \in 0..MaxBodyLen }

SuppliedVariables ==
    { Undefined,
      JSONstringify(Array(<<>>)),
      JSONstringify(Array(<< [key |-> Key("nome"), value |-> <<>>] >>)),
      JSONstringify(Array(<< [key |-> Key("cor"), value |-> <<Lit("azul")>>] >>)),
      JSONstringify(Array(<< [key |-> Key("cor"), value |-> <<Ph(Key("cor"))>>],
                             [key |-> [name |-> "telefone", upper |-> TRUE,
                                       padded |-> FALSE],
                              value |-> <<>>] >>)),
      JSONstringify(Array(<< [key |-> LinkKey, value |-> <<Lit("site")>>] >>)) }

(* one attempt's reading of the job's message (lines 166-245) *)
readMessage ==
    /\ rd.op = "none"
    /\ LET finalMessage == IF Truthy(rd.message) THEN rd.message ELSE DefaultMessage
           g == greetingFlow(rd.message, finalMessage, rd.useTemplate,
                             MathRandom(seed, randCalls))
       IN  rd' = [rd EXCEPT !.op = "readMessage",
                            !.out = [globalCsvVariables |-> globalCsvVariables(rd.message),
                                     isGreetingFlow |-> g.isGreetingFlow,
                                     message |-> g.message,
                                     finalMessage |-> g.finalMessage,
                                     useTemplate |-> g.useTemplate]]
    /\ UNCHANGED <<now, seed, randCalls, linesStock, segment, controlPanel, campaign,
                   campaignSeq, contactTable, campaignsQueue, conversation, up, rl,
                   bursts, blocklist, evolution, template, lineOperator,
                   templateMessage, jobs, faults, pr>>

(* one attempt's rendering of the template (lines 247-312), reached when *)
(* the job is in template mode and its message is no greeting wrapper    *)
renderCall ==
    /\ rd.op = "none"
    /\ rd.useTemplate
    /\ LET finalMessage == IF Truthy(rd.message) THEN rd.message ELSE DefaultMessage
           g == greetingFlow(rd.message, finalMessage, rd.useTemplate,
                             MathRandom(seed, randCalls))
       IN  /\ g.useTemplate
           /\ rd' = [rd EXCEPT !.op = "render",
                               !.out = renderTemplate(rd.bodyText, rd.templateVariables,
                                                      rd.contactName, rd.contactPhone,
                                                      globalCsvVariables(rd.message))]
    /\ UNCHANGED <<now, seed, randCalls, linesStock, segment, controlPanel, campaign,
                   campaignSeq, contactTable, campaignsQueue, conversation, up, rl,
                   bursts, blocklist, evolution, template, lineOperator,
                   templateMessage, jobs, faults, pr>>

InitRender ==
    /\ now = 1000
    /\ seed = 0
    /\ randCalls = 0
    /\ linesStock = <<>>
    /\ segment = {}
    /\ controlPanel = [greetingMessages |-> <<>>]
    /\ campaign = <<>>
    /\ campaignSeq = 0
    /\ contactTable = <<>>
    /\ campaignsQueue = <<>>
    /\ conversation = EmptyBag
    /\ up = UpIdle
    /\ rl = RlIdle
    /\ bursts = 0
    /\ blocklist = {}
    /\ evolution = {}
    /\ template = <<>>
    /\ lineOperator = <<>>
    /\ templateMessage = <<>>
    /\ jobs = <<>>
    /\ faults = 0
    /\ \E m \in Messages, b \in Bodies, tv \in SuppliedVariables,
          name \in {"Ana", ""}, ut \in BOOLEAN :
         rd = [op |-> "none", message |-> m, bodyText |-> b,
               templateVariables |-> tv, contactName |-> name,
               contactPhone |-> <<"1", "1">>, useTemplate |-> ut, out |-> Undefined]
    /\ pr = PrIdle

NextRender == readMessage \/ renderCall

SpecRender == InitRender /\ [][NextRender]_vars

----------------------------------------------------------------------------
(* Claims about the parser and the renderer *)

Lower(k) == [name |-> k.name, upper |-> FALSE, padded |-> FALSE]

Unpadded(k) == [name |-> k.name, upper |-> k.upper, padded |-> FALSE]

(* the object inside one or two JSON encodings *)
Decoded(m) == IF m.v.t = "json" THEN m.v.v ELSE m.v

IsWrapperPayload(m) ==
    /\ m.t = "json"
    /\ Decoded(m).t = "object"
    /\ "greeting" \in DOMAIN Decoded(m)

(* C15: a greeting wrapper encoded once and the same wrapper encoded twice *)
(* are both read as the wrapper: the attempt is a greeting send and the    *)
(* CSV variables read are those of the wrapper, under their lowered keys.  *)
C15_DoubleEncodingRecognised ==
    (rd.op = "readMessage" /\ IsWrapperPayload(rd.message)) =>
        LET w == Decoded(rd.message)
            cols == w.csvVariables
        IN  /\ rd.out.isGreetingFlow
            /\ DOMAIN rd.out.globalCsvVariables = { Lower(cols[i].key) : i \in DOMAIN cols }
            /\ \A i \in DOMAIN cols :
                 rd.out.globalCsvVariables[Lower(cols[i].key)] = cols[i].value

(* the variables supplied with the job *)
SuppliedList ==
    IF rd.templateVariables = Undefined THEN <<>> ELSE rd.templateVariables.v.items

(* the CSV columns of the payload the worker reads *)
PayloadColumns ==
    IF rd.message.t = "json" /\ rd.message.v.t = "object"
       /\ "csvVariables" \in DOMAIN rd.message.v
    THEN rd.message.v.csvVariables ELSE <<>>

CsvHas(k) ==
    \E i \in DOMAIN PayloadColumns :
        Lower(PayloadColumns[i].key) = k /\ PayloadColumns[i].value # <<>>

CsvValue(k) ==
    PayloadColumns[CHOOSE i \in DOMAIN PayloadColumns :
                      Lower(PayloadColumns[i].key) = k].value

IsNameKey(k) == k.name \in {"nome", "name", "cliente"}

IsPhoneKey(k) == k.name \in {"telefone", "phone", "celular", "mobile", "whatsapp"}

IsPlaceholderOf(value, k) ==
    Len(value) = 1 /\ value[1].k = "ph" /\ Lower(value[1].key) = k

HasPlaceholder(value) == \E i \in DOMAIN value : value[i].k = "ph"

(* the value the priority order gives the key k, when one of its sources *)
(* applies                                                               *)
SourceApplies(k) == IsNameKey(k) \/ IsPhoneKey(k) \/ CsvHas(k)

SourceValue(k) ==
    IF IsNameKey(k)
    THEN IF rd.contactName # "" THEN <<Lit(rd.contactName)>> ELSE <<Lit("Cliente")>>
    ELSE IF IsPhoneKey(k) THEN <<PhoneText(rd.contactPhone)>>
    ELSE CsvValue(k)

(* an unresolved key written in the body is still a placeholder in the   *)
(* text (a numeral is the positional form of the variable at that index) *)
PlaceholderKept(k) ==
    (/\ \A n \in DOMAIN IndexNames : k.name # IndexNames[n]
     /\ \E i \in DOMAIN rd.bodyText :
          rd.bodyText[i].k = "ph" /\ Lower(rd.bodyText[i].key) = k)
    => (\E i \in DOMAIN rd.out.templateText :
        rd.out.templateText[i].k = "ph" /\ Lower(rd.out.templateText[i].key) = k)

(* C16 as stated: a name-like key gives the contact's name or 'Cliente', a *)
(* phone-like key the normalized phone, any other key its CSV value, and a *)
(* key none of these resolves keeps its placeholder.                       *)
C16_ResolutionOrder ==
    rd.op = "render" =>
        \A i \in DOMAIN rd.out.variables :
            LET v == rd.out.variables[i]
                k == Lower(v.key)
            IN  IF SourceApplies(k) THEN v.value = SourceValue(k)
                ELSE IsPlaceholderOf(v.value, k) /\ PlaceholderKept(k)

(* a variable supplied with a value of its own, other than its placeholder *)
HasOwnValue(i) ==
    /\ i \in DOMAIN SuppliedList
    /\ SuppliedList[i].value # <<>>
    /\ SuppliedList[i].value # <<Ph(SuppliedList[i].key)>>

(* C16 amended: as above, but a key that no source resolves keeps the *)
(* value its variable was supplied with, and its placeholder only     *)
(* when that value is empty or the placeholder itself.                *)
C16_ResolutionOrderOrSupplied ==
    rd.op = "render" =>
        \A i \in DOMAIN rd.out.variables :
            LET v == rd.out.variables[i]
                k == Lower(v.key)
            IN  IF SourceApplies(k) THEN v.value = SourceValue(k)
                ELSE IF HasOwnValue(i) THEN v.value = SuppliedList[i].value
                ELSE IsPlaceholderOf(v.value, k) /\ PlaceholderKept(k)

C16_Witness ==
    /\ rd.op = "render"
    /\ rd.contactName = ""
    /\ Len(rd.out.variables) = 3
    /\ rd.out.variables[1].value = <<Lit("Cliente")>>
    /\ rd.out.variables[2].key = [name |-> "link", upper |-> TRUE, padded |-> FALSE]
    /\ rd.out.variables[2].value = <<Lit("http")>>
    /\ rd.out.variables[3].value = <<Ph(Key("cor"))>>

(* C17: a body without placeholders is rendered unchanged, and no         *)
(* placeholder of a variable that got a value, in its {{index}} or its    *)
(* {{key}} form, is left in the rendered text.                            *)
C17_EveryOccurrenceReplaced ==
    rd.op = "render" =>
        /\ ~HasPlaceholder(rd.bodyText) => rd.out.templateText = rd.bodyText
        /\ \A i \in DOMAIN rd.out.variables :
             LET v == rd.out.variables[i]
             IN  ~HasPlaceholder(v.value) =>
                   \A j \in DOMAIN rd.out.templateText :
                      /\ rd.out.templateText[j] # Ph(v.key)
                      /\ rd.out.templateText[j] # Ph(IndexKey(i))

BodyPlaceholders == SelectSeq(rd.bodyText, LAMBDA piece : piece.k = "ph")

(* C18: with no variables supplied there is one variable per placeholder *)
(* of the body, in order, keyed by the placeholder's trimmed key and     *)
(* resolved by name, phone, CSV, else left a placeholder; a supplied     *)
(* non-empty list is taken as it is, key by key.                         *)
C18_AutoDetect ==
    rd.op = "render" =>
        IF Len(SuppliedList) = 0
        THEN /\ Len(rd.out.variables) = Len(BodyPlaceholders)
             /\ \A i \in DOMAIN rd.out.variables :
                  LET v == rd.out.variables[i]
                      k == Lower(v.key)
                  IN  /\ v.key = Unpadded(BodyPlaceholders[i].key)
                      /\ IF SourceApplies(k) THEN v.value = SourceValue(k)
                         ELSE IsPlaceholderOf(v.value, k)
        ELSE /\ Len(rd.out.variables) = Len(SuppliedList)
             /\ \A i \in DOMAIN rd.out.variables :
                  rd.out.variables[i].key = SuppliedList[i].key

C18_Witness ==
    /\ rd.op = "render"
    /\ rd.templateVariables = JSONstringify(Array(<<>>))
    /\ rd.bodyText = <<Ph(Key("nome")), Lit("Oi"), Ph(Key("cor"))>>
    /\ Len(rd.out.variables) = 2
    /\ rd.out.variables[1].value = <<Lit("Ana")>>
    /\ rd.out.variables[2].value = <<Ph(Key("cor"))>>

----------------------------------------------------------------------------
(* CampaignsProcessor.handleSendMessage: one execution of a job *)

(* the state of a job of the queue before its first execution *)
JobInit(queued) ==
    [data |-> queued.data, opts |-> queued.opts, state |-> "waiting",
     executions |-> 0, pc |-> "none", error |-> "",
     message |-> Undefined, useTemplate |-> FALSE, finalMessage |-> Undefined,
     isLineHealthy |-> TRUE, typingErrors |-> 0,
     retries |-> 0, attempts |-> 0, sent |-> FALSE, isGreetingFlow |-> FALSE,
     globalCsvVariables |-> <<>>, variables |-> <<>>, sentId |-> Undefined,
     operatorConversationCounts |-> <<>>, assignedOperatorId |-> NoUser,
     typings |-> 0, sends |-> <<>>]

(* the handler returned *)
Completed(jb) == [jb EXCEPT !.state = "completed", !.pc = "done"]

(* the handler threw: Bull runs the job again while attempts are left *)
Thrown(jb, error) ==
    [jb EXCEPT !.state = IF jb.executions < jb.opts.attempts
                         THEN "waiting" ELSE "failed",
               !.pc = "done", !.error = error]

(* while (retries < 3 && !sent) *)
loopAgain(jb) ==
    IF jb.retries < MaxRetries /\ ~jb.sent
    THEN [jb EXCEPT !.pc = "attempt"] ELSE Completed(jb)

(* prisma.templateMessage.create of a failed template send *)
failedTemplateMessage(jb, error) ==
    [templateId |-> jb.data.templateId, contactPhone |-> jb.data.contactPhone,
     lineId |-> jb.data.lineId, status |-> "FAILED", errorMessage |-> error,
     campaignId |-> jb.data.campaignId]

(* the catch writing a failure marker into messageId at the third failure *)
caught_FailureInMessageId(jb, error) ==
    LET r == jb.retries + 1
        jb1 == [jb EXCEPT !.retries = r, !.error = error]
        id == jb.data.campaignId
    IN  IF r >= MaxRetries
        THEN IF id \notin DOMAIN campaign
             THEN [job |-> Thrown(jb1, "RecordNotFound"), campaign |-> campaign,
                   templateMessage |-> templateMessage]
             ELSE [job |-> loopAgain(jb1),
                   campaign |-> [campaign EXCEPT ![id].response = FALSE,
                                                 ![id].retryCount = r,
                                                 ![id].messageId = [tag |-> "FAILED"]],
                   templateMessage |->
                      IF jb1.useTemplate /\ jb1.data.templateId # NoTemplate
                      THEN Append(templateMessage, failedTemplateMessage(jb1, error))
                      ELSE templateMessage]
        ELSE [job |-> loopAgain(jb1), campaign |-> campaign,
              templateMessage |-> templateMessage]

(* the catch keeping the count of retries out of the record *)
caught_RetryCountNotStored(jb, error) ==
    LET r == jb.retries + 1
        jb1 == [jb EXCEPT !.retries = r, !.error = error]
        id == jb.data.campaignId
    IN  IF r >= MaxRetries
        THEN IF id \notin DOMAIN campaign
             THEN [job |-> Thrown(jb1, "RecordNotFound"), campaign |-> campaign,
                   templateMessage |-> templateMessage]
             ELSE [job |-> loopAgain(jb1),
                   campaign |-> [campaign EXCEPT ![id].response = FALSE],
                   templateMessage |->
                      IF jb1.useTemplate /\ jb1.data.templateId # NoTemplate
                      THEN Append(templateMessage, failedTemplateMessage(jb1, error))
                      ELSE templateMessage]
        ELSE [job |-> loopAgain(jb1), campaign |-> campaign,
              templateMessage |-> templateMessage]

(* the catch logging the template failure by the mode the job was queued in *)
caught_LoggingAsRequested(jb, error) ==
    LET r == jb.retries + 1
        jb1 == [jb EXCEPT !.retries = r, !.error = error]
        id == jb.data.campaignId
    IN  IF r >= MaxRetries
        THEN IF id \notin DOMAIN campaign
             THEN [job |-> Thrown(jb1, "RecordNotFound"), campaign |-> campaign,
                   templateMessage |-> templateMessage]
             ELSE [job |-> loopAgain(jb1),
                   campaign |-> [campaign EXCEPT ![id].response = FALSE,
                                                 ![id].retryCount = r],
                   templateMessage |->
                      IF jb1.data.useTemplate /\ jb1.data.templateId # NoTemplate
                      THEN Append(templateMessage, failedTemplateMessage(jb1, error))
                      ELSE templateMessage]
        ELSE [job |-> loopAgain(jb1), campaign |-> campaign,
              templateMessage |-> templateMessage]

(* the catch of the third failure when its update of the record fails: *)
(* the error leaves the handler                                        *)
caughtUnmarked(jb, error) ==
    Thrown([jb EXCEPT !.retries = @ + 1, !.error = error], "WriteFailed")

(* catch (error) of one attempt: count it; at the third, mark the record *)
(* failed, and log the template failure when still in template mode      *)
caught(jb, error) ==
    LET r == jb.retries + 1
        jb1 == [jb EXCEPT !.retries = r, !.error = error]
        id == jb.data.campaignId
    IN  IF r >= MaxRetries
        THEN IF id \notin DOMAIN campaign
             THEN [job |-> Thrown(jb1, "RecordNotFound"), campaign |-> campaign,
                   templateMessage |-> templateMessage]
             ELSE [job |-> loopAgain(jb1),
                   campaign |-> [campaign EXCEPT ![id].response = FALSE,
                                                 ![id].retryCount = r],
                   templateMessage |->
                      IF jb1.useTemplate /\ jb1.data.templateId # NoTemplate
                      THEN Append(templateMessage, failedTemplateMessage(jb1, error))
                      ELSE templateMessage]
        ELSE [job |-> loopAgain(jb1), campaign |-> campaign,
              templateMessage |-> templateMessage]

Active(j) == jobs[j].state = "active"

(* the validate step without its test of the blocklist *)
validate_IgnoringBlocklist(d) ==
    IF d.campaignId \notin DOMAIN campaign THEN "return"
    ELSE IF campaign[d.campaignId].messageId.tag = "PAUSED" THEN "return"
    ELSE "checkLine"

(* the validate step without its test of the pause marker *)
validate_IgnoringPause(d) ==
    IF d.campaignId \notin DOMAIN campaign THEN "return"
    ELSE IF d.contactPhone \in blocklist THEN "markBlocked"
    ELSE "checkLine"

(* the validate step: the record is gone or paused, else the blocklist *)
validate(d) ==
    IF d.campaignId \notin DOMAIN campaign THEN "return"
    ELSE IF campaign[d.campaignId].messageId.tag = "PAUSED" THEN "return"
    ELSE IF d.contactPhone \in blocklist THEN "markBlocked"
    ELSE "checkLine"

(* Bull hands a waiting job to the handler, which validates it: the jobs *)
(* not yet run in the order of their delays, a job to run again at any  *)
(* time after it threw                                                  *)
startJobOn(j, workers) ==
    /\ jobs[j].state = "waiting"
    /\ \A k \in 1..(j - 1) : ~(jobs[k].state = "waiting" /\ jobs[k].executions = 0)
    /\ Cardinality({ k \in DOMAIN jobs : Active(k) }) < workers * Concurrency
    /\ LET d == jobs[j].data
           jb == [jobs[j] EXCEPT !.state = "active", !.executions = @ + 1,
                                 !.error = "", !.message = d.message,
                                 !.useTemplate = d.useTemplate,
                                 !.finalMessage = Undefined, !.retries = 0,
                                 !.attempts = 0, !.sent = FALSE,
                                 !.isLineHealthy = TRUE, !.isGreetingFlow = FALSE,
                                 !.globalCsvVariables = <<>>, !.variables = <<>>,
                                 !.sentId = Undefined,
                                 !.operatorConversationCounts = <<>>,
                                 !.assignedOperatorId = NoUser]
       IN  jobs' = [jobs EXCEPT ![j] =
              IF validate(d) = "return" THEN Completed(jb)
              ELSE [jb EXCEPT !.pc = validate(d)]]
    /\ UNCHANGED <<now, seed, randCalls, linesStock, segment, controlPanel, campaign,
                   campaignSeq, contactTable, campaignsQueue, conversation, up, rl,
                   bursts, blocklist, evolution, template, lineOperator,
                   templateMessage, faults, rd, pr>>

(* one worker process on the queue *)
startJob(j) == startJobOn(j, 1)

(* the recipient is blocked: response = false, and the job returns *)
markBlocked(j) ==
    /\ Active(j)
    /\ jobs[j].pc = "markBlocked"
    /\ LET id == jobs[j].data.campaignId
       IN  IF id \in DOMAIN campaign
           THEN /\ campaign' = [campaign EXCEPT ![id].response = FALSE]
                /\ jobs' = [jobs EXCEPT ![j] = Completed(@)]
           ELSE /\ campaign' = campaign
                /\ jobs' = [jobs EXCEPT ![j] = Thrown(@, "RecordNotFound")]
    /\ UNCHANGED <<now, seed, randCalls, linesStock, segment, controlPanel,
                   campaignSeq, contactTable, campaignsQueue, conversation, up, rl,
                   bursts, blocklist, evolution, template, lineOperator,
                   templateMessage, faults, rd, pr>>

(* the checks of the line without the test of the rate limit *)
lineCheck_NoRateLimit(lineId) ==
    IF lineId \notin DOMAIN linesStock \/ linesStock[lineId].lineStatus # "active"
    THEN "Linha não disponível"
    ELSE IF lineId \notin evolution THEN "Evolution não encontrada"
    ELSE "ok"

(* the checks of the line without the test of its status *)
lineCheck_AnyStatus(lineId) ==
    IF lineId \notin DOMAIN linesStock
    THEN "Linha não disponível"
    ELSE IF ~canSendResult(lineId, "none") THEN "Limite de mensagens atingido"
    ELSE IF lineId \notin evolution THEN "Evolution não encontrada"
    ELSE "ok"

(* the line is there and active, it is below its limits, its gateway is *)
(* known: the error thrown, or "ok"                                     *)
lineCheck(lineId) ==
    IF lineId \notin DOMAIN linesStock \/ linesStock[lineId].lineStatus # "active"
    THEN "Linha não disponível"
    ELSE IF ~canSendResult(lineId, "none") THEN "Limite de mensagens atingido"
    ELSE IF lineId \notin evolution THEN "Evolution não encontrada"
    ELSE "ok"

(* the job after its checks, an unhealthy line being refused *)
afterLineCheck_RefusingUnhealthy(jb, isLineHealthy) ==
    IF lineCheck(jb.data.lineId) # "ok" THEN Thrown(jb, lineCheck(jb.data.lineId))
    ELSE IF ~isLineHealthy THEN Thrown(jb, "Linha com baixa reputação")
    ELSE [jb EXCEPT !.pc = "attempt", !.retries = 0, !.sent = FALSE,
                    !.finalMessage = IF Truthy(jb.message)
                                     THEN jb.message ELSE DefaultMessage]

(* the job after its checks: the answer of the reputation service is *)
(* logged and decides nothing                                        *)
afterLineCheck(jb, isLineHealthy) ==
    IF lineCheck(jb.data.lineId) # "ok" THEN Thrown(jb, lineCheck(jb.data.lineId))
    ELSE [jb EXCEPT !.pc = "attempt", !.retries = 0, !.sent = FALSE,
                    !.finalMessage = IF Truthy(jb.message)
                                     THEN jb.message ELSE DefaultMessage]

(* the line, its rate limit, its reputation and its gateway, all before *)
(* the first attempt                                                    *)
checkLine(j, isLineHealthy) ==
    /\ Active(j)
    /\ jobs[j].pc = "checkLine"
    /\ isLineHealthy \in BOOLEAN
    /\ jobs' = [jobs EXCEPT ![j] =
                  [afterLineCheck(jobs[j], isLineHealthy)
                     EXCEPT !.isLineHealthy =
                              IF lineCheck(jobs[j].data.lineId) \in
                                   {"ok", "Evolution não encontrada"}
                              THEN isLineHealthy ELSE @]]
    /\ UNCHANGED <<now, seed, randCalls, linesStock, segment, controlPanel, campaign,
                   campaignSeq, contactTable, campaignsQueue, conversation, up, rl,
                   bursts, blocklist, evolution, template, lineOperator,
                   templateMessage, faults, rd, pr>>

(* HumanizationService.getMassiveMessageDelay(5, 15), in seconds *)
massiveMessageDelay(r) ==
    massiveDelayMinSeconds
      + (r * (massiveDelayMaxSeconds - massiveDelayMinSeconds)) \div RandDen

(* the attempt given up when the typing indicator fails *)
afterTyping_Fatal(jb, typingOk) ==
    IF typingOk
    THEN [jb EXCEPT !.typings = @ + 1, !.attempts = @ + 1, !.pc = "send"]
    ELSE loopAgain([jb EXCEPT !.typings = @ + 1, !.attempts = @ + 1,
                              !.typingErrors = @ + 1, !.retries = @ + 1])

(* the job after the typing indicator of one attempt: its error is caught *)
(* and logged, the delay and the send follow                              *)
afterTyping(jb, typingOk) ==
    [jb EXCEPT !.typings = @ + 1, !.attempts = @ + 1,
               !.typingErrors = IF typingOk THEN @ ELSE @ + 1,
               !.pc = "send"]

(* the typing indicator, whose failure is swallowed, and the sleep *)
typingAndDelay(j, typingOk) ==
    /\ Active(j)
    /\ jobs[j].pc = "attempt"
    /\ typingOk \in BOOLEAN
    /\ ~typingOk => faults < MaxFaults
    /\ faults' = IF typingOk THEN faults ELSE faults + 1
    /\ jobs' = [jobs EXCEPT ![j] = afterTyping(@, typingOk)]
    /\ now' = now + massiveMessageDelay(MathRandom(seed, randCalls))
    /\ randCalls' = randCalls + 1
    /\ UNCHANGED <<seed, linesStock, segment, controlPanel, campaign,
                   campaignSeq, contactTable, campaignsQueue, conversation, up, rl,
                   bursts, blocklist, evolution, template, lineOperator,
                   templateMessage, rd, pr>>

(* the text of a rendered template *)
Rendered(pieces) == [t |-> "rendered", s |-> pieces]

(* response.data.key.id, or the id of the Cloud API *)
GatewayId(j, n) == [tag |-> "GATEWAY", id |-> <<j, n>>]

(* one call of the gateway, as the gateway sees it *)
GatewayCall(endpoint, body, ok) == [endpoint |-> endpoint, body |-> body, ok |-> ok]

SendOutcomes == {"id", "noId", "error", "fallbackId", "fallbackNoId", "none"}

(* the outcomes in which the gateway refuses the message; in the second *)
(* the update of the record in the catch fails as well                  *)
SendErrors == {"error", "errorUnmarked"}

(* line.oficial && line.token && line.numberId *)
viaCloudApi(lineId) == linesStock[lineId].oficial

(* the body of a template call: its name and the values of its variables *)
templateCallBody(tpl, variables) ==
    [name |-> tpl.name,
     parameters |-> [i \in 1..Len(variables) |-> variables[i].value]]

(* the calls one attempt makes to the gateway to send, given their outcome *)
gatewayCalls(jb, templateMode, outcome) ==
    IF ~templateMode
    THEN <<GatewayCall("sendText", jb.finalMessage, outcome \notin SendErrors)>>
    ELSE LET tpl == template[jb.data.templateId]
             call == templateCallBody(tpl, jb.variables)
         IN  IF viaCloudApi(jb.data.lineId)
             THEN <<GatewayCall("cloudApi", call, outcome \notin SendErrors)>>
             ELSE IF outcome \in {"id", "noId"}
             THEN <<GatewayCall("sendTemplate", call, TRUE)>>
             ELSE <<GatewayCall("sendTemplate", call, FALSE),
                    GatewayCall("sendText",
                                Rendered(evolutionMessageText(tpl.bodyText, jb.variables)),
                                outcome \notin SendErrors)>>

(* the mode read from the job as it was queued, whatever the greeting block did *)
sendMode_IgnoringGreeting(jb, g) == jb.data.useTemplate /\ jb.data.templateId # NoTemplate

(* if (useTemplate && templateId), after the greeting block *)
sendMode(jb, g) == g.useTemplate /\ jb.data.templateId # NoTemplate

(* one attempt up to its gateway call: the message is read, the template *)
(* rendered, the text or the template sent                               *)
send(j, outcome) ==
    /\ Active(j)
    /\ jobs[j].pc = "send"
    /\ LET jb == jobs[j]
           d == jb.data
           g == greetingFlow(jb.message, jb.finalMessage, jb.useTemplate,
                             MathRandom(seed, randCalls))
           jb1 == [jb EXCEPT !.message = g.message, !.finalMessage = g.finalMessage,
                             !.useTemplate = g.useTemplate,
                             !.isGreetingFlow = g.isGreetingFlow,
                             !.globalCsvVariables = globalCsvVariables(jb.message)]
           templateMode == sendMode(jb, g)
           missing == templateMode /\ d.templateId \notin DOMAIN template
           rt == renderTemplate(template[d.templateId].bodyText, d.templateVariables,
                                d.contactName, cleanPhone(d.contactPhone),
                                jb1.globalCsvVariables)
           jb2 == IF templateMode /\ ~missing
                  THEN [jb1 EXCEPT !.finalMessage = Rendered(rt.templateText),
                                   !.variables = rt.variables]
                  ELSE jb1
           fallback == templateMode /\ ~missing /\ ~viaCloudApi(d.lineId)
           jb3 == IF missing THEN jb2
                  ELSE [jb2 EXCEPT !.sends = @ \o gatewayCalls(jb2, templateMode, outcome)]
           failure == outcome \in SendErrors \cup {"fallbackId", "fallbackNoId"}
       IN  /\ missing <=> outcome = "none"
           /\ outcome = "errorUnmarked"
                => (jb.retries + 1 >= MaxRetries /\ d.campaignId \in DOMAIN campaign)
           /\ outcome \in {"fallbackId", "fallbackNoId"} => fallback
           /\ failure => faults < MaxFaults
           /\ faults' = IF failure THEN faults + 1 ELSE faults
           /\ randCalls' = randCalls + (IF g.drew THEN 1 ELSE 0)
           /\ IF outcome = "errorUnmarked"
              THEN /\ jobs' = [jobs EXCEPT ![j] = caughtUnmarked(jb3, "Request failed")]
                   /\ UNCHANGED <<campaign, templateMessage>>
              ELSE IF missing \/ outcome = "error"
              THEN LET c == caught(jb3, IF missing THEN "Template não encontrado"
                                        ELSE "Request failed")
                   IN  /\ jobs' = [jobs EXCEPT ![j] = c.job]
                       /\ campaign' = c.campaign
                       /\ templateMessage' = c.templateMessage
              ELSE /\ jobs' = [jobs EXCEPT ![j] =
                         [jb3 EXCEPT !.pc = "store",
                                     !.sentId = IF outcome \in {"id", "fallbackId"}
                                                THEN GatewayId(j, Len(jb3.sends))
                                                ELSE Undefined]]
                   /\ UNCHANGED <<campaign, templateMessage>>
    /\ UNCHANGED <<now, seed, linesStock, segment, controlPanel,
                   campaignSeq, contactTable, campaignsQueue, conversation, up, rl,
                   bursts, blocklist, evolution, template, lineOperator, rd, pr>>

(* prisma.templateMessage.create of a template sent *)
sentTemplateMessage(jb) ==
    [templateId |-> jb.data.templateId, contactPhone |-> jb.data.contactPhone,
     lineId |-> jb.data.lineId, status |-> "SENT", variables |-> jb.variables,
     campaignId |-> jb.data.campaignId]

(* the writes that follow the gateway call: the message id when the gateway *)
(* returned one, the log of the template sent; then sent = true             *)
store(j) ==
    /\ Active(j)
    /\ jobs[j].pc = "store"
    /\ LET jb == jobs[j]
           id == jb.data.campaignId
           templateMode == jb.useTemplate /\ jb.data.templateId # NoTemplate
           writesId == jb.sentId # Undefined
           gone == writesId /\ id \notin DOMAIN campaign
       IN  /\ IF gone
              THEN LET c == caught(jb, "RecordNotFound")
                   IN  /\ jobs' = [jobs EXCEPT ![j] = c.job]
                       /\ campaign' = c.campaign
                       /\ templateMessage' = c.templateMessage
              ELSE /\ campaign' = IF writesId
                                  THEN [campaign EXCEPT ![id].messageId = jb.sentId]
                                  ELSE campaign
                   /\ templateMessage' = IF templateMode
                                         THEN Append(templateMessage, sentTemplateMessage(jb))
                                         ELSE templateMessage
                   /\ jobs' = [jobs EXCEPT ![j].sent = TRUE, ![j].pc = "route"]
    /\ UNCHANGED <<now, seed, randCalls, linesStock, segment, controlPanel,
                   campaignSeq, contactTable, campaignsQueue, conversation, up, rl,
                   bursts, blocklist, evolution, template, lineOperator, faults, rd, pr>>

(* lineOperators filtered to the users online with the role operator *)
onlineOperators(lineId) ==
    SelectSeq(lineOperator[lineId],
              LAMBDA u : u.status = "Online" /\ u.role = "operator")

(* prisma.conversation.count({ userLine, userId, tabulation: null }) *)
countOpenConversations(lineId, userId) ==
    BagCardinality(
        [c \in { d \in BagToSet(conversation) :
                    /\ d.userLine = lineId
                    /\ d.userId = userId
                    /\ d.tabulation = Undefined } |-> conversation[c]])

conversationCounts(lineId) ==
    LET online == onlineOperators(lineId)
    IN  [i \in 1..Len(online) |->
           [operatorId |-> online[i].id,
            count |-> countOpenConversations(lineId, online[i].id)]]

(* the choice of the first online operator, whatever the counts *)
pickOperator_FirstOnline(counts) ==
    IF Len(counts) = 0 THEN NoUser ELSE counts[1].operatorId

(* counts.sort((a, b) => a.count - b.count)[0].operatorId: the sort is *)
(* stable, the first of the operators with the least count is taken    *)
pickOperator(counts) ==
    IF Len(counts) = 0 THEN NoUser
    ELSE counts[CHOOSE i \in DOMAIN counts :
                   \A k \in DOMAIN counts :
                      \/ counts[k].count > counts[i].count
                      \/ (counts[k].count = counts[i].count /\ k >= i)].operatorId

(* the operator who will receive the reply *)
route(j) ==
    /\ Active(j)
    /\ jobs[j].pc = "route"
    /\ LET counts == conversationCounts(jobs[j].data.lineId)
       IN  jobs' = [jobs EXCEPT ![j].operatorConversationCounts = counts,
                                ![j].assignedOperatorId = pickOperator(counts),
                                ![j].pc = "converse"]
    /\ UNCHANGED <<now, seed, randCalls, linesStock, segment, controlPanel, campaign,
                   campaignSeq, contactTable, campaignsQueue, conversation, up, rl,
                   bursts, blocklist, evolution, template, lineOperator,
                   templateMessage, faults, rd, pr>>

(* the row conversationsService.create is called with *)
conversationRow(jb, at) ==
    [contactPhone |-> jb.data.contactPhone, userLine |-> jb.data.lineId,
     userId |-> jb.assignedOperatorId, sender |-> "operator",
     message |-> IF jb.useTemplate
                 THEN [t |-> "template", v |-> jb.finalMessage] ELSE jb.finalMessage,
     messageType |-> IF jb.useTemplate THEN "template" ELSE "text",
     tabulation |-> Undefined, datetime |-> at]

createConversation(j, ok) ==
    /\ Active(j)
    /\ jobs[j].pc = "converse"
    /\ ~ok => faults < MaxFaults
    /\ faults' = IF ok THEN faults ELSE faults + 1
    /\ IF ok
       THEN /\ conversation' = conversation (+) SetToBag({conversationRow(jobs[j], now)})
            /\ jobs' = [jobs EXCEPT ![j].pc = "stamp"]
            /\ UNCHANGED <<campaign, templateMessage>>
       ELSE LET c == caught(jobs[j], "WriteFailed")
            IN  /\ jobs' = [jobs EXCEPT ![j] = c.job]
                /\ campaign' = c.campaign
                /\ templateMessage' = c.templateMessage
                /\ UNCHANGED conversation
    /\ UNCHANGED <<now, seed, randCalls, linesStock, segment, controlPanel,
                   campaignSeq, contactTable, campaignsQueue, up, rl,
                   bursts, blocklist, evolution, template, lineOperator, rd, pr>>

(* data: { response: !isGreetingFlow, dispatchedAt: new Date() } *)
stampData(jb, at) == [response |-> ~jb.isGreetingFlow, dispatchedAt |-> Some(at)]

(* the last write of a successful attempt; the loop ends, sent being true *)
stamp(j) ==
    /\ Active(j)
    /\ jobs[j].pc = "stamp"
    /\ LET jb == jobs[j]
           id == jb.data.campaignId
           gone == id \notin DOMAIN campaign
       IN  IF gone
           THEN LET c == caught(jb, "RecordNotFound")
                IN  /\ jobs' = [jobs EXCEPT ![j] = c.job]
                    /\ campaign' = c.campaign
                    /\ templateMessage' = c.templateMessage
           ELSE /\ campaign' = [campaign EXCEPT
                                  ![id].response = stampData(jb, now).response,
                                  ![id].dispatchedAt = stampData(jb, now).dispatchedAt]
                /\ jobs' = [jobs EXCEPT ![j] = Completed(jb)]
                /\ UNCHANGED templateMessage
    /\ UNCHANGED <<now, seed, randCalls, linesStock, segment, controlPanel,
                   campaignSeq, contactTable, campaignsQueue, conversation, up, rl,
                   bursts, blocklist, evolution, template, lineOperator, faults, rd, pr>>

(* the campaign is paused: its records not yet dispatched carry the marker *)
pauseByName(name) ==
    /\ \E id \in DOMAIN campaign :
         campaign[id].name = name /\ campaign[id].messageId.tag = "SCHEDULED"
    /\ campaign' = [id \in DOMAIN campaign |->
                      IF campaign[id].name = name
                         /\ campaign[id].messageId.tag = "SCHEDULED"
                      THEN [campaign[id] EXCEPT !.messageId = [tag |-> "PAUSED"]]
                      ELSE campaign[id]]
    /\ UNCHANGED <<now, seed, randCalls, linesStock, segment, controlPanel,
                   campaignSeq, contactTable, campaignsQueue, conversation, up, rl,
                   bursts, blocklist, evolution, template, lineOperator,
                   templateMessage, jobs, faults, rd, pr>>

(* CampaignsService.removeByName: deleteMany({ where: { name } }) *)
removeByName(name) ==
    /\ \E id \in DOMAIN campaign : campaign[id].name = name
    /\ campaign' = [id \in { i \in DOMAIN campaign : campaign[i].name # name } |->
                      campaign[id]]
    /\ UNCHANGED <<now, seed, randCalls, linesStock, segment, controlPanel,
                   campaignSeq, contactTable, campaignsQueue, conversation, up, rl,
                   bursts, blocklist, evolution, template, lineOperator,
                   templateMessage, jobs, faults, rd, pr>>

----------------------------------------------------------------------------
(* The worker over the jobs of one uploaded campaign *)

WorkerCampaign == "camp"
WorkerLine == 1
WorkerTemplate == 1

User(id, status, role) == [id |-> id, status |-> status, role |-> role]

(* the users bound to the sending line, in the order findMany returns them *)
OperatorLists ==
    [both |-> <<User(1, "Online", "operator"), User(2, "Online", "operator")>>,
     nobody |-> <<>>,
     secondOnly |-> <<User(1, "Offline", "operator"), User(2, "Online", "operator")>>,
     supervisor |-> <<User(1, "Online", "supervisor"), User(2, "Online", "operator")>>]

(* a conversation stored before the campaign *)
EarlierConversation(lineId, userId, tabulation, at, sender) ==
    [contactPhone |-> <<"9">>, userLine |-> lineId, userId |-> userId,
     sender |-> sender, message |-> Text("antes"), messageType |-> "text",
     tabulation |-> tabulation, datetime |-> at]

EarlierConversations(kind, at) ==
    CASE kind = "none" -> EmptyBag
      [] kind = "firstBusy" ->
           SetToBag({EarlierConversation(WorkerLine, 1, Undefined, at - 2 * DaySeconds, "contact")})
      [] kind = "firstTabulated" ->
           SetToBag({EarlierConversation(WorkerLine, 1, Some(7), at - 2 * DaySeconds, "contact")})
      [] kind = "firstBusyElsewhere" ->
           SetToBag({EarlierConversation(2, 1, Undefined, at - 2 * DaySeconds, "contact")})
      [] kind = "secondBusy" ->
           SetToBag({EarlierConversation(WorkerLine, 2, Undefined, at - 2 * DaySeconds, "contact")})
      [] kind = "limitAlmostReached" ->
           [c \in {EarlierConversation(WorkerLine, NoUser, Some(7), at, "operator")} |->
              getLimit(getLineAge(0)).hourly - 1]
      [] kind = "limitReached" ->
           [c \in {EarlierConversation(WorkerLine, NoUser, Some(7), at, "operator")} |->
              getLimit(getLineAge(0)).hourly]

(* the payloads the contacts of the file carry: none (the upload wraps a *)
(* greeting around a content), or an object of their own                 *)
PlainPayload == JSONstringify([t |-> "object", content |-> Text("oferta")])

(* a payload that starts with '{', is no JSON, and holds a content *)
BracedPayload == Braced(Text("oferta"))

WorkerContact(k, payloads) ==
    [name |-> ContactNames[1],
     phone |-> IF k = 1 THEN RawPhones[1] ELSE RawPhones[3],
     cpf |-> "", contract |-> "",
     message |-> IF payloads = "plain" \/ (payloads = "mixed" /\ k = 1)
                 THEN PlainPayload
                 ELSE IF payloads = "braced" THEN BracedPayload ELSE Undefined,
     variables |-> Some(<<[key |-> Key("nome"), value |-> <<Lit("Zé")>>]>>)]

WorkerDto(useTpl) ==
    [name |-> WorkerCampaign, segment |-> NoSegment, speed |-> "fast",
     useTemplate |-> useTpl,
     templateId |-> IF useTpl THEN WorkerTemplate ELSE NoTemplate,
     templateVariables |-> Undefined]

(* the record and the job uploadCampaign makes for the k-th contact *)
WorkerRecord(k, sc, at) ==
    LET camp == create(WorkerDto(sc.useTemplate), NumJobs + 1, at)
        contact == WorkerContact(k, sc.payloads)
    IN  campaignRecord(k, camp, contact, cleanPhone(contact.phone), WorkerLine,
                       camp.useTemplate, camp.templateId,
                       buildContactMessage(contact, Undefined, camp.useTemplate, 0),
                       (k - 1) * minDelaySeconds, at)

WorkerJob(k, sc, at) ==
    LET rec == WorkerRecord(k, sc, at)
        contact == WorkerContact(k, sc.payloads)
    IN  campaignJob(rec, contact, rec.contactPhone, rec.lineReceptor,
                    rec.useTemplate, rec.templateId, rec.message,
                    (k - 1) * minDelaySeconds)

BaseScenario ==
    [useTemplate |-> FALSE, payloads |-> "wrapper", line |-> "ready",
     blocked |-> FALSE, operators |-> "both", earlier |-> "none",
     hasTemplate |-> TRUE]

ScenarioValues ==
    [useTemplate |-> BOOLEAN, payloads |-> {"wrapper", "plain", "mixed", "braced"},
     line |-> {"ready", "official", "inactive", "missing", "noEvolution"},
     blocked |-> BOOLEAN, operators |-> DOMAIN OperatorLists,
     earlier |-> {"none", "firstBusy", "firstTabulated", "firstBusyElsewhere",
                  "secondBusy", "limitReached"},
     hasTemplate |-> BOOLEAN]

TemplateScenario == [BaseScenario EXCEPT !.useTemplate = TRUE, !.payloads = "plain"]

(* the base and the scenarios that differ from it in one respect; the *)
(* same around a template send; the operators with conversations open *)
Scenarios ==
    UNION { { [BaseScenario EXCEPT ![f] = v] : v \in ScenarioValues[f] } :
              f \in DOMAIN BaseScenario }
    \cup { [TemplateScenario EXCEPT !.line = "official"],
           [TemplateScenario EXCEPT !.hasTemplate = FALSE],
           [TemplateScenario EXCEPT !.payloads = "mixed"],
           TemplateScenario }
    \cup { [BaseScenario EXCEPT !.operators = o, !.earlier = e] :
             o \in {"both", "secondOnly", "supervisor"},
             e \in {"firstBusy", "secondBusy"} }

InitScenario(sc) ==
    /\ now = StartTime
    /\ seed = 1
    /\ randCalls = 0
    /\ segment = SegmentRows(TRUE)
    /\ controlPanel = [greetingMessages |-> <<>>]
    /\ campaignSeq = NumJobs + 1
    /\ contactTable = <<>>
    /\ up = UpIdle
    /\ rl = RlIdle
    /\ bursts = 0
    /\ faults = 0
    /\ rd = RdIdle
    /\ pr = PrIdle
    /\ templateMessage = <<>>
    /\   /\ linesStock =
              [l \in (IF sc.line = "missing" THEN LineIds \ {WorkerLine} ELSE LineIds) |->
                 IF l = WorkerLine
                 THEN [LineRow(l, IF sc.line = "inactive" THEN "inactive" ELSE "active", 0)
                         EXCEPT !.oficial = (sc.line = "official")]
                 ELSE LineRow(l, "active", 0)]
         /\ evolution = IF sc.line = "noEvolution" THEN {2} ELSE {WorkerLine, 2}
         /\ blocklist = IF sc.blocked THEN {cleanPhone(RawPhones[1])} ELSE {}
         /\ template = IF sc.hasTemplate
                       THEN [t \in {WorkerTemplate} |->
                               [name |-> "promo",
                                bodyText |-> <<Lit("Oi"), Ph(Key("nome"))>>]]
                       ELSE <<>>
         /\ lineOperator = [l \in LineIds |->
                              IF l = WorkerLine THEN OperatorLists[sc.operators]
                              ELSE <<User(3, "Online", "operator")>>]
         /\ conversation = EarlierConversations(sc.earlier, StartTime)
         /\ campaign = [id \in 1..(NumJobs + 1) |->
                          IF id = NumJobs + 1
                          THEN create(WorkerDto(sc.useTemplate), id, StartTime)
                          ELSE WorkerRecord(id, sc, StartTime)]
         /\ campaignsQueue = [k \in 1..NumJobs |-> WorkerJob(k, sc, StartTime)]
         /\ jobs = [k \in 1..NumJobs |-> JobInit(WorkerJob(k, sc, StartTime))]

InitWorker == \E sc \in Scenarios : InitScenario(sc)

(* the answers of the typing call and of the reputation service are those *)
(* of a healthy line here; SpecFleet varies them                          *)
NextWorker ==
    \/ \E j \in 1..NumJobs : startJob(j)
    \/ \E j \in 1..NumJobs : markBlocked(j)
    \/ \E j \in 1..NumJobs : checkLine(j, TRUE)
    \/ \E j \in 1..NumJobs : typingAndDelay(j, TRUE)
    \/ \E j \in 1..NumJobs, outcome \in SendOutcomes : send(j, outcome)
    \/ \E j \in 1..NumJobs : store(j)
    \/ \E j \in 1..NumJobs : route(j)
    \/ \E j \in 1..NumJobs, ok \in BOOLEAN : createConversation(j, ok)
    \/ \E j \in 1..NumJobs : stamp(j)
    \/ pauseByName(WorkerCampaign)
    \/ removeByName(WorkerCampaign)

SpecWorker == InitWorker /\ [][NextWorker]_vars

----------------------------------------------------------------------------
(* Several worker processes on the one queue, the campaign left alone *)

FleetScenarios ==
    { BaseScenario,
      [BaseScenario EXCEPT !.earlier = "limitAlmostReached"],
      [BaseScenario EXCEPT !.earlier = "limitReached"] }

InitFleet == \E sc \in FleetScenarios : InitScenario(sc)

NextFleet ==
    \/ \E j \in 1..NumJobs : startJobOn(j, NumWorkers)
    \/ \E j \in 1..NumJobs : checkLine(j, TRUE)
    \/ \E j \in 1..NumJobs : typingAndDelay(j, TRUE)
    \/ \E j \in 1..NumJobs : send(j, "id")
    \/ \E j \in 1..NumJobs : store(j)
    \/ \E j \in 1..NumJobs : route(j)
    \/ \E j \in 1..NumJobs : createConversation(j, TRUE)
    \/ \E j \in 1..NumJobs : stamp(j)

SpecFleet == InitFleet /\ [][NextFleet]_vars

----------------------------------------------------------------------------
(* One worker process whose collaborators answer either way *)

AnswersScenarios ==
    { BaseScenario, TemplateScenario, [BaseScenario EXCEPT !.payloads = "plain"] }

InitAnswers == \E sc \in AnswersScenarios : InitScenario(sc)

NextAnswers ==
    \/ \E j \in 1..NumJobs : startJob(j)
    \/ \E j \in 1..NumJobs, isLineHealthy \in BOOLEAN : checkLine(j, isLineHealthy)
    \/ \E j \in 1..NumJobs, typingOk \in BOOLEAN : typingAndDelay(j, typingOk)
    \/ \E j \in 1..NumJobs, outcome \in {"id"} \cup SendErrors : send(j, outcome)
    \/ \E j \in 1..NumJobs : store(j)
    \/ \E j \in 1..NumJobs : route(j)
    \/ \E j \in 1..NumJobs : createConversation(j, TRUE)
    \/ \E j \in 1..NumJobs : stamp(j)

SpecAnswers == InitAnswers /\ [][NextAnswers]_vars

----------------------------------------------------------------------------
(* Claims about the worker *)

WorkerJobs == DOMAIN jobs

(* the step in which Bull hands job j to the handler *)
JobStarts(j) == jobs'[j].executions = jobs[j].executions + 1

RecordGone(j) == jobs[j].data.campaignId \notin DOMAIN campaign

RecordPaused(j) ==
    /\ ~RecordGone(j)
    /\ campaign[jobs[j].data.campaignId].messageId.tag = "PAUSED"

(* the step leaves the gateway, the conversations and the records alone *)
NothingDone(j) ==
    /\ jobs'[j].typings = jobs[j].typings
    /\ jobs'[j].sends = jobs[j].sends
    /\ conversation' = conversation
    /\ templateMessage' = templateMessage
    /\ campaign' = campaign

(* C11: a job that starts when its record is gone or carries the pause   *)
(* marker returns normally in that very step: no typing, no send, no     *)
(* conversation, no record changed.                                      *)
C11_PausedOrGoneIsNoOp ==
    [][\A j \in WorkerJobs :
          (JobStarts(j) /\ (RecordGone(j) \/ RecordPaused(j)))
            => /\ jobs'[j].state = "completed"
               /\ jobs'[j].error = ""
               /\ NothingDone(j)]_vars

(* a job has returned from its first run without an attempt, its record *)
(* paused, nobody being blocked                                         *)
C11_Witness ==
    \E j \in WorkerJobs :
      /\ jobs[j].state = "completed"
      /\ jobs[j].executions = 1
      /\ jobs[j].attempts = 0
      /\ jobs[j].sends = <<>>
      /\ blocklist = {}
      /\ ~RecordGone(j)
      /\ campaign[jobs[j].data.campaignId].messageId.tag = "PAUSED"

Blocked(j) == jobs[j].data.contactPhone \in blocklist

RecordOfJob(j) == campaign[jobs[j].data.campaignId]

Stamps(j) ==
    /\ jobs[j].pc = "stamp"
    /\ jobs'[j].state = "completed"
    /\ ~RecordGone(j)

(* C14: the attempt that succeeds, whichever it is, stamps the record with *)
(* dispatchedAt = now and with response = false when the job's payload is  *)
(* a greeting wrapper, response = true when it is not.                     *)
C14_ResponseByPayload ==
    [][\A j \in WorkerJobs :
          Stamps(j)
            => /\ campaign'[jobs[j].data.campaignId].dispatchedAt = Some(now)
               /\ campaign'[jobs[j].data.campaignId].response
                    = ~IsWrapperPayload(jobs[j].data.message)]_vars

(* the places, in the list of the users bound to line l, of the operators *)
(* who are online                                                         *)
OnlinePlaces(l) ==
    { i \in DOMAIN lineOperator[l] :
        lineOperator[l][i].status = "Online" /\ lineOperator[l][i].role = "operator" }

(* the conversations of user u on line l that have no tabulation *)
OpenOn(l, u) ==
    SumCounts({ r \in DOMAIN conversation :
                  r.userLine = l /\ r.userId = u /\ r.tabulation = Undefined })

(* the user the claim names for a conversation on line l *)
LeastLoaded(l) ==
    IF OnlinePlaces(l) = {} THEN NoUser
    ELSE lineOperator[l][
           CHOOSE i \in OnlinePlaces(l) :
             \A k \in OnlinePlaces(l) :
               LET oi == OpenOn(l, lineOperator[l][i].id)
                   ok == OpenOn(l, lineOperator[l][k].id)
               IN  ok > oi \/ (ok = oi /\ k >= i)].id

(* the step in which job j stores its conversation *)
Converses(j) == jobs[j].pc = "converse" /\ jobs'[j].pc = "stamp"

(* C19: the conversation stored after a send belongs to the sending line  *)
(* and to the online operator bound to that line who has the fewest open  *)
(* conversations on it, the earlier in the list on a tie, and to no user  *)
(* when no operator bound to the line is online.                          *)
C19_LeastLoadedOperator ==
    [][\A j \in WorkerJobs :
          Converses(j)
            => \E r \in DOMAIN conversation' :
                 /\ conversation'[r]
                      = 1 + (IF r \in DOMAIN conversation THEN conversation[r] ELSE 0)
                 /\ r.userLine = jobs[j].data.lineId
                 /\ r.contactPhone = jobs[j].data.contactPhone
                 /\ r.userId = LeastLoaded(jobs[j].data.lineId)]_vars

(* a conversation went to the second operator, the first being online too *)
C19_Witness ==
    \E j \in WorkerJobs :
      /\ jobs[j].pc = "stamp"
      /\ jobs[j].assignedOperatorId = 2
      /\ OnlinePlaces(jobs[j].data.lineId) = {1, 2}
      /\ \E r \in DOMAIN conversation :
           /\ r.userId = 2
           /\ r.contactPhone = jobs[j].data.contactPhone

(* the state a messageId stands for *)
StateOfMessageId(messageId) ==
    CASE messageId.tag = "null" -> "not started"
      [] messageId.tag = "SCHEDULED" -> "scheduled"
      [] messageId.tag = "PAUSED" -> "paused"
      [] messageId.tag = "GATEWAY" -> "sent"
      [] OTHER -> "none"

(* the handler gave the record of job j up: its recipient is blocked, or *)
(* three attempts failed, or the queue has no run left for it            *)
GaveUp(j) ==
    /\ ~jobs[j].sent
    /\ \/ jobs[j].state = "failed"
       \/ /\ jobs[j].state = "completed"
          /\ \/ jobs[j].retries = MaxRetries
             \/ (Blocked(j) /\ RecordOfJob(j).response = FALSE
                   /\ jobs[j].attempts = 0 /\ ~RecordPaused(j))

(* what has happened to the record of job j *)
StateOfRecord(j) ==
    IF jobs[j].sent THEN "sent"
    ELSE IF GaveUp(j) THEN "failed"
    ELSE IF RecordPaused(j) THEN "paused"
    ELSE "scheduled"

MessageIdForms == {"null", "SCHEDULED", "PAUSED", "GATEWAY"}

WorkerHourlyLimit == HourlyLimit(AgeInDays(WorkerLine))

(* C21: the check of the limit and the send are two steps, so the jobs in *)
(* flight at once all pass the check on the same count: the count of the  *)
(* window can end above the limit, by at most one message for each other  *)
(* job in flight.                                                         *)
C21_OverrunByJobsInFlight ==
    /\ SentLastHour(WorkerLine) <= WorkerHourlyLimit + (NumWorkers * Concurrency - 1)
    /\ \A j \in WorkerJobs :
         (Active(j) /\ jobs[j].pc = "checkLine"
            /\ SentLastHour(WorkerLine) >= WorkerHourlyLimit)
           => lineCheck(jobs[j].data.lineId) = "Limite de mensagens atingido"

(* two jobs passed the check one message below the limit and both sent: *)
(* the count of the hour is above the limit                             *)
C21_Witness ==
    /\ SentLastHour(WorkerLine) > WorkerHourlyLimit
    /\ \E j, k \in WorkerJobs :
         /\ j # k
         /\ jobs[j].sent /\ jobs[k].sent
         /\ jobs[j].executions = 1 /\ jobs[k].executions = 1
         /\ jobs[j].pc \in {"stamp", "done"}
         /\ jobs[k].pc \in {"stamp", "done"}

(* the step in which job j calls the gateway to send *)
Sends(j) == Len(jobs'[j].sends) > Len(jobs[j].sends)

(* the step in which the handler of job j throws to the queue *)
Throws(j) == jobs[j].state = "active" /\ jobs'[j].state \in {"waiting", "failed"}

(* C22: a job whose record was paused or deleted after its validate step *)
(* makes no send for it from then on and throws nothing to the queue.    *)
C22_InFlightHonoursPauseAndDelete ==
    [][\A j \in WorkerJobs :
          (Active(j) /\ jobs[j].pc # "markBlocked"
             /\ (RecordGone(j) \/ RecordPaused(j)))
            => (~Sends(j) /\ ~Throws(j))]_vars

(* job j is in template mode and its template is not there *)
TemplateMissing(j) ==
    /\ jobs[j].useTemplate
    /\ jobs[j].data.templateId # NoTemplate
    /\ jobs[j].data.templateId \notin DOMAIN template
    /\ ~IsWrapperPayload(jobs[j].data.message)

(* C23: the attempt that finds no template throws to the queue at once: *)
(* the handler makes no second attempt, with its typing indicator and   *)
(* its delay, for it.                                                   *)
C23_MissingTemplateAborts ==
    [][\A j \in WorkerJobs :
          (Active(j) /\ jobs[j].pc = "send" /\ TemplateMissing(j) /\ ~RecordGone(j))
            => (Throws(j) /\ jobs'[j].error = "Template não encontrado"
                  /\ jobs'[j].attempts = 1)]_vars

(* the step in which job j makes the checks that precede its attempts *)
ChecksLine(j) == Active(j) /\ jobs[j].pc = "checkLine" /\ jobs'[j].pc # "checkLine"

LineUnavailable(lineId) ==
    lineId \notin DOMAIN linesStock \/ linesStock[lineId].lineStatus # "active"

(* the handler threw before its loop: nothing attempted, nothing written *)
ThrewBeforeLoop(j) ==
    /\ Throws(j)
    /\ jobs'[j].error # ""
    /\ jobs'[j].attempts = 0
    /\ NothingDone(j)

(* C24: a job whose line is missing or not active, or whose line has no *)
(* gateway, throws to the queue before its first attempt: no typing, no *)
(* send, the record as it was.                                          *)
C24_UnavailableLineThrows ==
    [][\A j \in WorkerJobs :
          (ChecksLine(j)
             /\ (LineUnavailable(jobs[j].data.lineId)
                   \/ jobs[j].data.lineId \notin evolution))
            => /\ ThrewBeforeLoop(j)
               /\ LineUnavailable(jobs[j].data.lineId)
                    => jobs'[j].error = "Linha não disponível"]_vars

(* a job has thrown for its line or for its gateway on every run the queue *)
(* gave it, and its record is as the upload left it                       *)
C24_Witness ==
    \E j \in WorkerJobs :
      /\ jobs[j].state = "failed"
      /\ jobs[j].executions = JobAttempts
      /\ jobs[j].error \in {"Linha não disponível", "Evolution não encontrada"}
      /\ jobs[j].attempts = 0
      /\ jobs[j].typings = 0
      /\ jobs[j].sends = <<>>
      /\ ~RecordGone(j)
      /\ RecordOfJob(j).messageId.tag = "SCHEDULED"
      /\ RecordOfJob(j).retryCount = 0

(* C25: a job whose line is refused by canSendMessage throws to the queue *)
(* before its first attempt: no typing, no send, the record as it was.    *)
C25_RateLimitThrows ==
    [][\A j \in WorkerJobs :
          (ChecksLine(j)
             /\ ~LineUnavailable(jobs[j].data.lineId)
             /\ ~canSendResult(jobs[j].data.lineId, "none"))
            => /\ ThrewBeforeLoop(j)
               /\ jobs'[j].error = "Limite de mensagens atingido"]_vars

(* a job has thrown for the limit of its line *)
C25_Witness ==
    \E j \in WorkerJobs :
      /\ jobs[j].state \in {"waiting", "failed"}
      /\ jobs[j].executions >= 1
      /\ jobs[j].error = "Limite de mensagens atingido"
      /\ jobs[j].attempts = 0
      /\ jobs[j].typings = 0
      /\ jobs[j].sends = <<>>
      /\ ~RecordGone(j)
      /\ RecordOfJob(j).retryCount = 0
      /\ RecordOfJob(j).dispatchedAt = Undefined

(* the job, its local isLineHealthy set aside *)
ButHealth(jb) == [jb EXCEPT !.isLineHealthy = TRUE]

(* C26: the answer of the reputation service decides nothing: the checks *)
(* leave the job as they would have with the other answer, and write     *)
(* nothing.                                                              *)
C26_ReputationDecidesNothing ==
    [][\A j \in WorkerJobs :
          ChecksLine(j)
            => /\ \A isLineHealthy \in BOOLEAN :
                    ButHealth(jobs'[j]) = ButHealth(afterLineCheck(jobs[j], isLineHealthy))
               /\ NothingDone(j)]_vars

(* a job sent and stamped its record on a line reported unhealthy *)
C26_Witness ==
    \E j \in WorkerJobs :
      /\ ~jobs[j].isLineHealthy
      /\ jobs[j].state = "completed"
      /\ jobs[j].sent
      /\ jobs[j].attempts = 1
      /\ \E n \in DOMAIN jobs[j].sends : jobs[j].sends[n].ok
      /\ RecordOfJob(j).dispatchedAt # Undefined

(* the step in which job j calls the typing indicator of an attempt *)
Types(j) == Active(j) /\ jobs'[j].typings = jobs[j].typings + 1

(* C27: whether the typing indicator fails or not, the attempt goes on: no *)
(* failure is counted, the delay of 5 to 15 seconds is slept, the send is  *)
(* what comes next.                                                        *)
C27_TypingFailureIsNotFatal ==
    [][\A j \in WorkerJobs :
          Types(j)
            => /\ jobs'[j].retries = jobs[j].retries
               /\ jobs'[j].attempts = jobs[j].attempts + 1
               /\ jobs'[j].pc = "send"
               /\ now' - now >= massiveDelayMinSeconds
               /\ now' - now <= massiveDelayMaxSeconds]_vars

(* the typing indicator of the first attempt failed and that attempt sent *)
C27_Witness ==
    \E j \in WorkerJobs :
      /\ jobs[j].typingErrors = 1
      /\ jobs[j].attempts = 1
      /\ jobs[j].retries = 0
      /\ jobs[j].sent
      /\ Len(jobs[j].sends) = 1
      /\ jobs[j].sends[1].ok

(* job j was queued in template mode *)
RequestedTemplate(j) ==
    jobs[j].data.useTemplate /\ jobs[j].data.templateId # NoTemplate

(* the handler of job j has returned after its third failed attempt *)
Exhausted(j) == jobs[j].state = "completed" /\ jobs[j].retries = MaxRetries

(* the rows of templateMessage that log a failure of job j *)
FailureLogs(j) ==
    { i \in DOMAIN templateMessage :
        /\ templateMessage[i].campaignId = jobs[j].data.campaignId
        /\ templateMessage[i].status = "FAILED" }

GreetingWrapper(j) ==
    LET m == jobs[j].data.message
    IN  m.t = "json" /\ HasField(m.v, "greeting")

(* the texts a greeting send of job j may carry *)
GreetingTexts(j) ==
    LET greeting == jobs[j].data.message.v.greeting
    IN  { applySpintax(greeting[i]) : i \in DOMAIN greeting }

(* C29: every gateway call of a job whose message is a greeting wrapper is *)
(* a plain-text send of one of the wrapper's greetings: never the content, *)
(* never the wrapper itself, never the template, and no template is logged *)
(* as sent, whatever mode the job was queued in.                           *)
C29_GreetingSentAsText ==
    \A j \in WorkerJobs :
      GreetingWrapper(j)
        => /\ \A n \in DOMAIN jobs[j].sends :
                /\ jobs[j].sends[n].endpoint = "sendText"
                /\ jobs[j].sends[n].body.t = "text"
                /\ jobs[j].sends[n].body \in GreetingTexts(j)
           /\ \A i \in DOMAIN templateMessage :
                templateMessage[i].campaignId = jobs[j].data.campaignId
                  => templateMessage[i].status # "SENT"

(* a wrapper queued in template mode was sent on its second attempt *)
C29_Witness ==
    \E j \in WorkerJobs :
      /\ GreetingWrapper(j)
      /\ RequestedTemplate(j)
      /\ jobs[j].state = "completed"
      /\ jobs[j].sent
      /\ Len(jobs[j].sends) = 2
      /\ ~jobs[j].sends[1].ok
      /\ jobs[j].sends[2].ok
      /\ jobs[j].sends[2].body \in GreetingTexts(j)

(* the message of job j starts with '{', is no JSON, and the pattern *)
(* "content": "..." finds a content in it                            *)
Recoverable(j) ==
    LET m == jobs[j].data.message
    IN  m.t = "braced" /\ m.content # Undefined

(* C30: the text sent for a message in braces that does not parse and *)
(* whose content the pattern recovers is that content, not the raw    *)
(* message.                                                           *)
C30_RecoveredContentSent ==
    \A j \in WorkerJobs :
      Recoverable(j)
        => \A n \in DOMAIN jobs[j].sends :
             jobs[j].sends[n].endpoint = "sendText"
               => /\ jobs[j].sends[n].body.t = "text"
                  /\ jobs[j].sends[n].body = jobs[j].data.message.content

----------------------------------------------------------------------------
(* The messages of an upload *)

(* the message given for the contact at index i: its own, else that of *)
(* the upload                                                          *)
ExplicitMessage(i) ==
    IF Truthy(ContactRow(i).message) THEN ContactRow(i).message ELSE up.message

(* C31: the record and the job of a contact that has a message of its own, *)
(* or else one given with the upload, carry that message; the greeting     *)
(* wrapper is made for the contacts that have neither.                     *)
C31_ExplicitMessageCarried ==
    UploadRunning =>
      \A i \in 0..(Len(campaignsQueue) - 1) :
        /\ RecordOf(i).message = JobOf(i).data.message
        /\ IF Truthy(ExplicitMessage(i))
           THEN JobOf(i).data.message = ExplicitMessage(i)
           ELSE /\ IsWrapperPayload(JobOf(i).data.message)
                /\ JobOf(i).data.message.v.greeting = GREETINGS

----------------------------------------------------------------------------
(* PresenceSchedulerService.handleRandomPresence *)

(* Math.random() < 0.15, the draw being r / RandDen *)
shouldGoOnline(r) == r * 100 < onlineChancePercent * RandDen

(* Math.floor(Math.random() * (40 - 10 + 1) + 10) *)
durationSeconds(r) ==
    (r * (onlineMaxSeconds - onlineMinSeconds + 1)) \div RandDen + onlineMinSeconds

(* MessageSendingService.sendPresence: the call is made and its failure is *)
(* logged inside; the caller gets no error                                 *)
sendPresence(p, line, presence, at, ok) ==
    [p EXCEPT !.calls = Append(@, [line |-> line, presence |-> presence,
                                   cycle |-> p.cycle, at |-> at, ok |-> ok])]

(* the timer set only after an 'available' call that was delivered *)
goOnline_OnlyWhenDelivered(p, line, duration, ok) ==
    LET called == sendPresence(p, line, "available", now, ok)
    IN  IF ok
        THEN [called EXCEPT !.timers = @ \cup {[line |-> line, cycle |-> p.cycle,
                                               due |-> now + duration]}]
        ELSE called

(* the 'available' call and the setTimeout that follows it *)
goOnline(p, line, duration, ok) ==
    LET called == sendPresence(p, line, "available", now, ok)
    IN  [called EXCEPT !.timers = @ \cup {[line |-> line, cycle |-> p.cycle,
                                           due |-> now + duration]}]

(* the loop ended by the first call that fails *)
nextLine_StoppingOnFailure(p, ok) ==
    IF ok
    THEN [p EXCEPT !.i = @ + 1,
                   !.pc = IF p.i = Len(p.activeLines) THEN "idle" ELSE "loop"]
    ELSE [p EXCEPT !.pc = "idle", !.error = "presence"]

(* for (const line of activeLines): on to the next line, whatever the call did *)
nextLine(p, ok) ==
    [p EXCEPT !.i = @ + 1,
              !.pc = IF p.i = Len(p.activeLines) THEN "idle" ELSE "loop"]

(* the next time the cron expression matches *)
nextCron == ((now \div CronSeconds) + 1) * CronSeconds

(* @Cron fires: the active lines are read; a read that fails is logged. *)
(* pr.calls holds the calls of the current cycle.                       *)
handleRandomPresence(dbOk) ==
    /\ pr.pc = "idle"
    /\ pr.cycle < MaxCycles
    /\ \A t \in pr.timers : t.due >= nextCron
    /\ ~dbOk => faults < MaxFaults
    /\ faults' = IF dbOk THEN faults ELSE faults + 1
    /\ now' = nextCron
    /\ LET activeLines ==
             IF dbOk
             THEN SetToSortedSeq({ l \in DOMAIN linesStock :
                                     linesStock[l].lineStatus = "active" })
             ELSE <<>>
       IN  pr' = [pr EXCEPT !.cycle = @ + 1, !.activeLines = activeLines, !.i = 1,
                            !.calls = <<>>,
                            !.pc = IF Len(activeLines) = 0 THEN "idle" ELSE "loop"]
    /\ UNCHANGED <<seed, randCalls, linesStock, segment, controlPanel, campaign,
                   campaignSeq, contactTable, campaignsQueue, conversation, up, rl,
                   bursts, blocklist, evolution, template, lineOperator,
                   templateMessage, jobs, rd>>

(* one iteration of the loop over the active lines *)
presenceLine(r1, r2, ok) ==
    /\ pr.pc = "loop"
    /\ LET line == pr.activeLines[pr.i]
       IN  IF shouldGoOnline(r1) /\ line \in evolution
           THEN /\ ~ok => faults < MaxFaults
                /\ faults' = IF ok THEN faults ELSE faults + 1
                /\ pr' = nextLine(goOnline(pr, line, durationSeconds(r2), ok), ok)
           ELSE /\ ok
                /\ r2 = 0
                /\ faults' = faults
                /\ pr' = nextLine(pr, ok)
    /\ UNCHANGED <<now, seed, randCalls, linesStock, segment, controlPanel, campaign,
                   campaignSeq, contactTable, campaignsQueue, conversation, up, rl,
                   bursts, blocklist, evolution, template, lineOperator,
                   templateMessage, jobs, rd>>

(* the callback of setTimeout: the 'unavailable' call, its failure logged; *)
(* the calls of the loop take no time, so no timer is due before its end   *)
presenceTimeout(t, ok) ==
    /\ pr.pc = "idle"
    /\ t \in pr.timers
    /\ \A u \in pr.timers : t.due <= u.due
    /\ ~ok => faults < MaxFaults
    /\ faults' = IF ok THEN faults ELSE faults + 1
    /\ now' = IF t.due > now THEN t.due ELSE now
    /\ pr' = [sendPresence(pr, t.line, "unavailable", now', ok)
                EXCEPT !.timers = @ \ {t}, !.cycle = pr.cycle]
    /\ UNCHANGED <<seed, randCalls, linesStock, segment, controlPanel, campaign,
                   campaignSeq, contactTable, campaignsQueue, conversation, up, rl,
                   bursts, blocklist, evolution, template, lineOperator,
                   templateMessage, jobs, rd>>

(* the lines of the stock and those of them that have a gateway row *)
PresenceStocks ==
    { [status |-> st, evolution |-> ev] :
        st \in { [l \in LineIds |-> "active"],
                 [l \in LineIds |-> IF l = 2 THEN "inactive" ELSE "active"],
                 [l \in LineIds |-> "inactive"] },
        ev \in { LineIds, LineIds \ {1} } }

InitPresence ==
    /\ now = StartTime
    /\ seed = 0
    /\ randCalls = 0
    /\ segment = SegmentRows(TRUE)
    /\ controlPanel = [greetingMessages |-> <<>>]
    /\ campaign = <<>>
    /\ campaignSeq = 0
    /\ contactTable = <<>>
    /\ campaignsQueue = <<>>
    /\ conversation = EmptyBag
    /\ up = UpIdle
    /\ rl = RlIdle
    /\ bursts = 0
    /\ blocklist = {}
    /\ template = <<>>
    /\ lineOperator = <<>>
    /\ templateMessage = <<>>
    /\ jobs = <<>>
    /\ faults = 0
    /\ rd = RdIdle
    /\ \E sc \in PresenceStocks :
         /\ linesStock = [l \in LineIds |-> LineRow(l, sc.status[l], 0)]
         /\ evolution = sc.evolution
    /\ pr = PrIdle

(* draws of Math.random: below and at the chance of going online; the *)
(* shortest and the longest duration                                  *)
OnlineDraws == {0, (onlineChancePercent * RandDen) \div 100}
DurationDraws == {0, RandDen - 1}

loopRuns ==
    \E r1 \in OnlineDraws, r2 \in DurationDraws, ok \in BOOLEAN :
       presenceLine(r1, r2, ok)

timerFires == \E t \in pr.timers, ok \in BOOLEAN : presenceTimeout(t, ok)

NextPresence ==
    \/ \E dbOk \in BOOLEAN : handleRandomPresence(dbOk)
    \/ loopRuns
    \/ timerFires

(* the process stays up: the handler runs on to its end (every call it *)
(* awaits returns within its timeout) and a timer that was set fires   *)
SpecPresence ==
    InitPresence /\ [][NextPresence]_vars /\ WF_vars(loopRuns) /\ WF_vars(timerFires)

----------------------------------------------------------------------------
(* Properties of the presence cycle *)

(* the calls of the current cycle for a line with a given presence *)
PresenceCalls(line, presence) ==
    { k \in DOMAIN pr.calls :
        pr.calls[k].line = line /\ pr.calls[k].presence = presence }

(* a timer of line l is set and has not fired *)
Pending(l) == \E t \in pr.timers : t.line = l

(* line l has been put back to 'unavailable' after its 'available' *)
Reverted(l) ==
    /\ ~Pending(l)
    /\ Cardinality(PresenceCalls(l, "unavailable")) = 1

(* every call goes to an active line that has a gateway row; a line gets *)
(* at most one 'available' per cycle; each 'available' has its timer set *)
(* or, once that fired, exactly one 'unavailable' after it, 10 to 40     *)
(* seconds later; there is no other 'unavailable'                        *)
PresenceCallsPaired ==
    /\ \A k \in DOMAIN pr.calls :
         /\ pr.calls[k].line \in DOMAIN linesStock
         /\ linesStock[pr.calls[k].line].lineStatus = "active"
         /\ pr.calls[k].line \in evolution
         /\ pr.calls[k].cycle = pr.cycle
    /\ \A t \in pr.timers : t.cycle = pr.cycle
    /\ \A l \in LineIds :
         /\ Cardinality(PresenceCalls(l, "available")) <= 1
         /\ Cardinality(PresenceCalls(l, "available"))
              = Cardinality(PresenceCalls(l, "unavailable"))
                  + Cardinality({ t \in pr.timers : t.line = l })
         /\ \A u \in PresenceCalls(l, "unavailable") :
              \E a \in PresenceCalls(l, "available") :
                 /\ a < u
                 /\ pr.calls[u].at - pr.calls[a].at >= onlineMinSeconds
                 /\ pr.calls[u].at - pr.calls[a].at <= onlineMaxSeconds

(* C32: in a cycle, a line that was put 'available' is put 'unavailable' *)
(* once, 10 to 40 seconds later, and that call does come; no line is put *)
(* 'unavailable' without its 'available', and a line that is not active  *)
(* or has no gateway row gets no call.                                   *)
C32_AvailableThenUnavailable ==
    /\ []PresenceCallsPaired
    /\ \A l \in LineIds : Pending(l) ~> Reverted(l)

(* two lines went online in one cycle, for the shortest and the longest *)
(* time, and both are offline again                                     *)
C32_Witness ==
    /\ pr.pc = "idle"
    /\ pr.timers = {}
    /\ \E l1, l2 \in LineIds :
         /\ l1 # l2
         /\ \E a \in PresenceCalls(l1, "available"), u \in PresenceCalls(l1, "unavailable") :
              pr.calls[u].at - pr.calls[a].at = onlineMinSeconds
         /\ \E a \in PresenceCalls(l2, "available"), u \in PresenceCalls(l2, "unavailable") :
              pr.calls[u].at - pr.calls[a].at = onlineMaxSeconds
    /\ \E l \in LineIds : l \notin evolution \/ linesStock[l].lineStatus # "active"

(* C33: a presence call that fails raises nothing out of the handler, is *)
(* not made again, and the lines after it in the cycle are still visited *)
C33_PresenceFailureSwallowed ==
    /\ pr.error = ""
    /\ pr.pc = "idle" => pr.i = Len(pr.activeLines) + 1
    /\ pr.pc = "loop" => pr.i \in DOMAIN pr.activeLines
    /\ \A l \in LineIds :
         /\ Cardinality(PresenceCalls(l, "available")) <= 1
         /\ Cardinality(PresenceCalls(l, "unavailable")) <= 1
    /\ \A k \in DOMAIN pr.calls :
         (pr.calls[k].presence = "available" /\ ~pr.calls[k].ok)
           => \/ Pending(pr.calls[k].line)
              \/ PresenceCalls(pr.calls[k].line, "unavailable") # {}

(* the 'available' call of the first line failed, a later line was still *)
(* put online, and an 'unavailable' call failed as well                  *)
C33_Witness ==
    /\ pr.pc = "idle"
    /\ pr.timers = {}
    /\ Len(pr.calls) >= 4
    /\ pr.calls[1].presence = "available"
    /\ ~pr.calls[1].ok
    /\ pr.calls[2].presence = "available"
    /\ pr.calls[2].line # pr.calls[1].line
    /\ \E k \in DOMAIN pr.calls :
         pr.calls[k].presence = "unavailable" /\ ~pr.calls[k].ok

----------------------------------------------------------------------------
(* Properties of the worker over the whole life of a job *)

(* the gateway calls of job j that delivered a message *)
Delivered(j) == { n \in DOMAIN jobs[j].sends : jobs[j].sends[n].ok }

(* C34: the executions of a job deliver at most one message to its *)
(* recipient, whatever fails after the gateway call.               *)
C34_AtMostOneDelivery ==
    \A j \in WorkerJobs : Cardinality(Delivered(j)) <= 1

(* the attempts of job j, over all its executions, that called the gateway *)
(* to send: the calls but for the text sent after a template was refused   *)
SendAttempts(j) ==
    { n \in DOMAIN jobs[j].sends :
        ~(jobs[j].sends[n].endpoint = "sendText" /\ jobs[j].sends[n].body.t = "rendered") }

(* C35: over all the executions of a job the gateway is asked to send at *)
(* most 3 times: the execution whose third attempt fails has marked the  *)
(* record and returned, it is not handed back to the queue.              *)
C35_ThreeSendsPerJob ==
    \A j \in WorkerJobs :
      /\ Cardinality(SendAttempts(j)) <= MaxRetries
      /\ (jobs[j].pc = "done" /\ jobs[j].retries = MaxRetries)
           => jobs[j].state = "completed"

----------------------------------------------------------------------------
(* CampaignsService.getStats and getNextMessages *)

(* prisma.campaign.findMany({ where: { name } }) *)
campaignsByName(name) == { id \in DOMAIN campaign : campaign[id].name = name }

(* the filter of getStats a record falls under *)
statsOf(c) ==
    IF c.response = TRUE THEN "sent"
    ELSE IF c.dispatchedAt # Undefined THEN "failed"
    ELSE "pending"

getStats(name) ==
    LET campaigns == campaignsByName(name)
        count(kind) == Cardinality({ id \in campaigns : statsOf(campaign[id]) = kind })
    IN  [campaignName |-> name, totalContacts |-> Cardinality(campaigns),
         sent |-> count("sent"), pending |-> count("pending"),
         failed |-> count("failed")]

(* where: { name, response: false, messageId: { startsWith: 'SCHEDULED:' } } *)
pendingMessages(name) ==
    { id \in campaignsByName(name) :
        campaign[id].response = FALSE /\ campaign[id].messageId.tag = "SCHEDULED" }

(* take: 100, then sort by timestamp, then slice(0, 5): the ids of the rows *)
getNextMessages(name) ==
    LET rows == SetToSortedSeq(pendingMessages(name))
        batch == SubSeq(rows, 1, IF Len(rows) < nextMessagesTake
                                 THEN Len(rows) ELSE nextMessagesTake)
        sortedMessages ==
            SortSeq(batch, LAMBDA a, b : campaign[a].messageId.at < campaign[b].messageId.at)
    IN  SubSeq(sortedMessages, 1, IF Len(sortedMessages) < nextMessagesShown
                                  THEN Len(sortedMessages) ELSE nextMessagesShown)

(* the execution of job j has ended with an outcome for its record: the *)
(* recipient blocklisted, the attempts used up, or the message sent     *)
MarkedBlocked(j) ==
    jobs[j].state = "completed" /\ Blocked(j) /\ jobs[j].attempts = 0
      /\ jobs[j].executions = 1 /\ ~RecordPaused(j)

SentAndStamped(j) ==
    jobs[j].state = "completed" /\ jobs[j].sent /\ jobs[j].retries < MaxRetries
      /\ RecordOfJob(j).dispatchedAt # Undefined

(* C36: the counts of getStats add up to the total, and a record is     *)
(* counted by what became of it: failed when its recipient was          *)
(* blocklisted or its attempts were used up, pending while its job has  *)
(* not run, not failed when its greeting was sent.                      *)
C36_StatsByOutcome ==
    /\ \A name \in {WorkerCampaign} :
         getStats(name).sent + getStats(name).pending + getStats(name).failed
           = getStats(name).totalContacts
    /\ \A j \in WorkerJobs :
         ~RecordGone(j)
           => /\ (MarkedBlocked(j) \/ Exhausted(j))
                   => statsOf(RecordOfJob(j)) = "failed"
              /\ jobs[j].executions = 0 => statsOf(RecordOfJob(j)) = "pending"
              /\ (SentAndStamped(j) /\ jobs[j].isGreetingFlow)
                   => statsOf(RecordOfJob(j)) # "failed"

(* the ids getNextMessages returns *)
NextMessageIds(name) ==
    { getNextMessages(name)[n] : n \in DOMAIN getNextMessages(name) }

(* C37: getNextMessages returns at most 5 records of the name, in the *)
(* order of their scheduled times, none of them a record whose job    *)
(* has sent, was blocklisted or has used up its attempts.             *)
C37_NextMessagesAreUpcoming ==
    LET next == getNextMessages(WorkerCampaign)
    IN  /\ Len(next) <= nextMessagesShown
        /\ \A n \in DOMAIN next : campaign[next[n]].name = WorkerCampaign
        /\ \A m, n \in DOMAIN next :
             m < n => campaign[next[m]].messageId.at <= campaign[next[n]].messageId.at
        /\ \A j \in WorkerJobs :
             (~RecordGone(j)
                /\ (MarkedBlocked(j) \/ Exhausted(j) \/ SentAndStamped(j)))
               => jobs[j].data.campaignId \notin NextMessageIds(WorkerCampaign)

----------------------------------------------------------------------------
(* The conversations the rate limiter counts *)

(* the number of rows the worker wrote for the send of job j: those of *)
(* its line and recipient with sender 'operator'                       *)
ConversationsOf(j) ==
    BagCardinality(
        [c \in { d \in BagToSet(conversation) :
                    /\ d.userLine = jobs[j].data.lineId
                    /\ d.contactPhone = jobs[j].data.contactPhone
                    /\ d.sender = "operator" } |-> conversation[c]])

(* C38: once the handler of a job has ended, the conversations of sender *)
(* 'operator' hold a row for every message the job delivered.           *)
C38_EverySendCounted ==
    \A j \in WorkerJobs :
      jobs[j].pc = "done" => ConversationsOf(j) >= Cardinality(Delivered(j))


(* the open-conversation counts of the online operators bound to line l *)
OpenCounts(l) ==
    { OpenOn(l, lineOperator[l][i].id) : i \in OnlinePlaces(l) }

(* C39: on every line the open-conversation counts of any two online       *)
(* operators differ by at most 1, whatever the interleaving of the jobs    *)
(* that run at the same time.                                              *)
C39_OperatorsBalanced ==
    \A l \in DOMAIN lineOperator :
      \A a \in OpenCounts(l), b \in OpenCounts(l) : a - b <= 1


----------------------------------------------------------------------------
(* An upload in which a write of the loop rejects *)

(* the writes one iteration performs, in the order of the loop *)
UploadWrites == <<"contact", "record", "queue">>

(* the iteration of contact up.i ends in a rejected write: the writes     *)
(* before it in the iteration are kept, the exception leaves the method   *)
uploadContactThrows(step) ==
    /\ up.pc = "loop"
    /\ up.i < up.n
    /\ step \in 1..Len(UploadWrites)
    /\ LET i == up.i
           contact == ContactRow(i)
           normalizedPhone == cleanPhone(contact.phone)
           lineId == assignLine(i, up.availableLines)
           useTpl == finalUseTemplate(up.useTemplate, up.camp)
           tplId == finalTemplateId(up.templateId, up.camp)
           drawsC == drawsContent(contact, up.message, useTpl)
           msg == buildContactMessage(contact, up.message, useTpl,
                                      MathRandom(seed, randCalls))
           rec == campaignRecord(campaignSeq + 1, up.camp, contact, normalizedPhone,
                                 lineId, useTpl, tplId, msg, up.accumulatedDelayMs, now)
       IN  /\ contactTable' = IF step > 1
                               THEN upsertContact(contactTable, contact, normalizedPhone,
                                                  up.camp.contactSegment)
                               ELSE contactTable
           /\ randCalls' = randCalls + (IF step > 1 /\ drawsC THEN 1 ELSE 0)
           /\ campaign' = IF step > 2
                           THEN [id \in DOMAIN campaign \cup {rec.id} |->
                                   IF id = rec.id THEN rec ELSE campaign[id]]
                           ELSE campaign
           /\ campaignSeq' = IF step > 2 THEN campaignSeq + 1 ELSE campaignSeq
           /\ up' = [up EXCEPT !.pc = "thrown", !.error = UploadWrites[step]]
    /\ UNCHANGED <<now, seed, linesStock, segment, controlPanel, campaignsQueue,
                   conversation, rl, bursts>>
    /\ UNCHANGED workerVars

InitUploadFaults ==
    /\ InitUpload
    /\ seed = 0
    /\ \A l \in LineIds : linesStock[l].lineStatus = "active"

NextUploadFaults ==
    \/ \E campaignId \in {1, 2}, n \in 0..MaxFaultyBatch,
          message \in {Undefined, Text("global")} :
         uploadStart(campaignId, n, message, Undefined, Undefined)
    \/ uploadContact
    \/ \E step \in 1..Len(UploadWrites) : uploadContactThrows(step)
    \/ uploadReturn

SpecUploadFaults == InitUploadFaults /\ [][NextUploadFaults]_vars

(* the queued jobs that reference record id *)
JobsFor(id) ==
    { k \in 1..Len(campaignsQueue) : campaignsQueue[k].data.campaignId = id }

(* the records the upload created: those that name a contact *)
UploadedRecords == { id \in DOMAIN campaign : campaign[id].messageId.tag = "SCHEDULED" }

(* C40: when uploadCampaign has ended, by its return or by an exception,  *)
(* every record it created has exactly one queued job and every queued    *)
(* job references an existing record.                                     *)
C40_RecordsAndJobsPaired ==
    up.pc \in {"done", "failed", "thrown"} =>
      /\ \A id \in UploadedRecords : Cardinality(JobsFor(id)) = 1
      /\ \A k \in 1..Len(campaignsQueue) :
           campaignsQueue[k].data.campaignId \in DOMAIN campaign

====
